---- MODULE Spec2Model ----
(***************************************************************************)
(* A model of ormrepo: the repository layer over SQLAlchemy entities       *)
(* (src/src/ormrepo/orm.py), its nested updater and entity builder         *)
(* (src/src/ormrepo/utils.py) and its global configuration                 *)
(* (src/src/ormrepo/db_settings.py), over the entity types declared in     *)
(* src/tests/models.py.                                                    *)
(***************************************************************************)
EXTENDS Integers, Sequences, FiniteSets, TLC

VARIABLES
    heap,     \* the entity instances in memory: object id -> [cls, f]
    table,    \* the object ids whose rows the store holds (flushed)
    config,   \* config_orm: [limit, global_filters]
    repo,     \* the DatabaseRepository instance's own fields
    last      \* the call being returned to the caller: its operation,
              \* its arguments and its outcome (NoCall between calls)

vars == <<heap, table, config, repo, last>>

\* no call is being returned
NoCall == [op |-> "none"]

(***************************************************************************)
(* Bounds of the model.                                                    *)
(***************************************************************************)
\* scalar values are 0..MaxVal (0 is the falsy one)
MaxVal == 1
\* the longest tuple or list given as a primary key
MaxPkLen == 3

Vals == 0..MaxVal

(***************************************************************************)
(* Python values.  k is the value's type, c its class (of a DTO), i its    *)
(* integer (or object id), s its items.                                    *)
(***************************************************************************)
PyNone == [k |-> "none", c |-> "", i |-> 0, s |-> <<>>]
PyInt(n) == [k |-> "int", c |-> "", i |-> n, s |-> <<>>]
\* a dict keeps its insertion order: a sequence of <<key, value>>
PyDict(pairs) == [k |-> "dict", c |-> "", i |-> 0, s |-> pairs]
PyList(xs) == [k |-> "list", c |-> "", i |-> 0, s |-> xs]
PyTuple(xs) == [k |-> "tuple", c |-> "", i |-> 0, s |-> xs]
\* a reference to an entity instance of the heap
PyObj(id) == [k |-> "obj", c |-> "", i |-> id, s |-> <<>>]

\* bool(v)
Truthy(v) ==
    CASE v.k = "none" -> FALSE
      [] v.k = "int" -> v.i # 0
      [] v.k \in {"dict", "list", "tuple"} -> Len(v.s) > 0
      [] OTHER -> TRUE

\* x or []
OrEmptyList(x) == IF Truthy(x) THEN x ELSE PyList(<<>>)

Range(q) == {q[n] : n \in 1..Len(q)}

\* F(x), with x evaluated once
Bind(x, F(_)) == CHOOSE r \in {F(v) : v \in {x}} : TRUE

\* dict.keys(), key in dict, dict[key]
DictKeys(d) == {d.s[n][1] : n \in 1..Len(d.s)}
DictHas(d, key) == key \in DictKeys(d)
DictGet(d, key) == d.s[CHOOSE n \in 1..Len(d.s) : d.s[n][1] = key][2]

(***************************************************************************)
(* The mapped classes of src/tests/models.py.                              *)
(***************************************************************************)
Models == {"TModel1", "TModel2", "RelationModel1", "RelationModel2", "RelRel1"}

\* model.__mapper__.primary_key, in declared order
PrimaryKey(m) ==
    IF m = "TModel1" THEN <<"id", "serial">> ELSE <<"id">>

\* the mapped columns of a class
Columns(m) ==
    CASE m = "TModel1" -> {"id", "serial", "name"}
      [] m = "TModel2" -> {"id", "name"}
      [] m = "RelationModel1" -> {"id", "test_model1_id", "test_model1_serial"}
      [] m = "RelationModel2" -> {"id", "test_model2_id"}
      [] m = "RelRel1" -> {"id", "relation_model1_id"}

\* mapper.relationships: key -> [target, uselist]
Relationships(m) ==
    CASE m = "TModel1" ->
            [x \in {"relation_models"} |-> [target |-> "RelationModel1", uselist |-> TRUE]]
      [] m = "TModel2" ->
            [x \in {"relation_model"} |-> [target |-> "RelationModel2", uselist |-> FALSE]]
      [] m = "RelationModel1" ->
            [x \in {"test_model1", "rel_rel1"} |->
                IF x = "test_model1"
                THEN [target |-> "TModel1", uselist |-> FALSE]
                ELSE [target |-> "RelRel1", uselist |-> FALSE]]
      [] m = "RelationModel2" ->
            [x \in {"test_model2"} |-> [target |-> "TModel2", uselist |-> FALSE]]
      [] m = "RelRel1" ->
            [x \in {"relation_model1"} |-> [target |-> "RelationModel1", uselist |-> FALSE]]

\* the plain class attributes every model inherits from OrmBase
repr_cols_num == 3
BaseAttrs == {"repr_cols_num", "repr_cols"}

\* hasattr(model, key): a column, a relationship or an inherited class attribute
HasAttr(m, key) ==
    key \in Columns(m) \cup DOMAIN Relationships(m) \cup BaseAttrs

(***************************************************************************)
(* SQL expressions.  A BinaryExpression has left, right and operator; a    *)
(* BooleanClauseList (and_, or_) and a UnaryExpression (not_ of a column)  *)
(* have clauses or an element instead.                                     *)
(***************************************************************************)
\* Model.col <op> v
Binary(m, col, op, v) ==
    [kind |-> "binary", on |-> m, col |-> col, op |-> op, val |-> v, args |-> <<>>]
And(cs) == [kind |-> "and", on |-> "", col |-> "", op |-> "and", val |-> PyNone, args |-> cs]
Or(cs) == [kind |-> "or", on |-> "", col |-> "", op |-> "or", val |-> PyNone, args |-> cs]
Not(c) == [kind |-> "unary", on |-> "", col |-> "", op |-> "not", val |-> PyNone, args |-> <<c>>]
\* a Python bool handed to and_() is coerced to true() or false()
Const(b) ==
    [kind |-> "const", on |-> "", col |-> "", op |-> IF b THEN "true" ELSE "false",
     val |-> PyNone, args |-> <<>>]

Raise(exc) == [outcome |-> exc, value |-> And(<<>>)]
Return(v) == [outcome |-> "ok", value |-> v]

\* DatabaseRepository._resolve_pk_condition with a tuple or list of the wrong length
WrongLengthAccepted(m, pk) ==
    LET cols == PrimaryKey(m)
        n == IF Len(cols) < Len(pk.s) THEN Len(cols) ELSE Len(pk.s)
    IN  Return(And([j \in 1..n |-> Binary(m, cols[j], "eq", pk.s[j])]))

\* the length check of DatabaseRepository._resolve_pk_condition
ResolveSequencePk(m, pk) ==
    LET cols == PrimaryKey(m)
    IN  IF Len(cols) # Len(pk.s)
        THEN Raise("ORMException")
        ELSE Return(And([j \in 1..Len(cols) |-> Binary(m, cols[j], "eq", pk.s[j])]))

\* _resolve_pk_condition pairing a mapping's values with the columns by position
ResolvePkByPosition(m, pk) ==
    LET cols == PrimaryKey(m)
    IN  CASE pk.k = "dict" ->
                IF DictKeys(pk) # Range(cols)
                THEN Raise("ORMException")
                ELSE Return(And([j \in 1..Len(cols) |->
                                    Binary(m, cols[j], "eq", pk.s[j][2])]))
          [] pk.k \in {"tuple", "list"} -> ResolveSequencePk(m, pk)
          [] OTHER ->
                IF Len(cols) # 1
                THEN Raise("ORMException")
                ELSE Return(And(<<Binary(m, cols[1], "eq", pk)>>))

\* DatabaseRepository._resolve_pk_condition
ResolvePkCondition(m, pk) ==
    LET cols == PrimaryKey(m)
    IN  CASE pk.k = "dict" ->
                IF DictKeys(pk) # Range(cols)
                THEN Raise("ORMException")
                ELSE Return(And([j \in 1..Len(cols) |->
                                    Binary(m, cols[j], "eq", DictGet(pk, cols[j]))]))
          [] pk.k \in {"tuple", "list"} -> ResolveSequencePk(m, pk)
          [] OTHER ->
                IF Len(cols) # 1
                THEN Raise("ORMException")
                ELSE Return(And(<<Binary(m, cols[1], "eq", pk)>>))

\* getattr(model, key) of a plain class attribute
ClassAttr(key) ==
    IF key = "repr_cols_num" THEN PyInt(repr_cols_num) ELSE PyTuple(<<>>)

\* getattr(self.model, key) == value: an expression for a mapped attribute, a
\* Python bool for a plain class attribute
GlobalCondition(m, key, value) ==
    IF key \in BaseAttrs
    THEN Const(ClassAttr(key) = value)
    ELSE Binary(m, key, "eq", value)

\* the test of DatabaseRepository._resolve_global_filters: hasattr(self.model, key)
KeepsKey(m, key) == HasAttr(m, key)

\* DatabaseRepository._resolve_global_filters
ResolveGlobalFilters(m, G) ==
    LET kept == SelectSeq(G.s, LAMBDA p : KeepsKey(m, p[1]))
    IN  And([j \in 1..Len(kept) |-> GlobalCondition(m, kept[j][1], kept[j][2])])

(***************************************************************************)
(* Entity instances.  The constructor assigns its keyword arguments as     *)
(* given; a column not given reads None, a collection not given reads as   *)
(* an empty list, a scalar relationship not given reads None.              *)
(***************************************************************************)
RelNames(m) == DOMAIN Relationships(m)
FieldNames(m) == Columns(m) \cup RelNames(m)

Unset(m, name) ==
    IF name \in RelNames(m) /\ Relationships(m)[name].uselist
    THEN PyList(<<>>)
    ELSE PyNone

\* the instance the constructor of class m builds from keyword arguments
Construct(m, kwargs) ==
    [cls |-> m,
     f |-> [name \in FieldNames(m) |->
                IF DictHas(kwargs, name) THEN DictGet(kwargs, name) ELSE Unset(m, name)]]

(***************************************************************************)
(* NestedUpdater.  Each operator takes the heap and returns the heap the   *)
(* code leaves.                                                            *)
(***************************************************************************)
\* setattr(entry, key, value)
SetAttr(h, o, key, value) ==
    [h EXCEPT ![o].f = [name \in DOMAIN h[o].f \cup {key} |->
                            IF name = key THEN value ELSE h[o].f[name]]]

\* an _update_scalar that assigns nothing
KeepsScalar(h, o, key, value) == h

\* NestedUpdater._update_scalar
UpdateScalar(h, o, key, value) == SetAttr(h, o, key, value)

\* key_vals = {col.name: item[col.name] for col in pk_cols if col.name in item}
KeyVals(target, item) == SelectSeq(item.s, LAMBDA p : p[1] \in Range(PrimaryKey(target)))

\* all(getattr(obj, k) == v for k, v in key_vals.items())
MatchesKeyVals(h, o, keyVals) ==
    \A j \in 1..Len(keyVals) : h[o].f[keyVals[j][1]] = keyVals[j][2]

\* NestedUpdater._find_existing: the first object all of whose key values match
\* (None when the loop ends without one)
FindExisting(h, objects, keyVals) ==
    LET hits == {j \in 1..Len(objects) : MatchesKeyVals(h, objects[j].i, keyVals)}
    IN  IF hits = {} THEN PyNone
        ELSE objects[CHOOSE j \in hits : \A q \in hits : j <= q]

RECURSIVE Apply(_, _, _)
RECURSIVE ApplyItems(_, _, _)
RECURSIVE ReconcileItems(_, _, _, _, _)

\* _update_one_to_one that builds a new related object for every mapping
OneToOneAlwaysNew(h, o, key, value) ==
    LET target == Relationships(h[o].cls)[key].target
    IN  IF value.k = "none" THEN SetAttr(h, o, key, PyNone)
        ELSE IF value.k = "dict"
        THEN SetAttr(Append(h, Construct(target, value)), o, key, PyObj(Len(h) + 1))
        ELSE SetAttr(h, o, key, value)

\* NestedUpdater._update_one_to_one
UpdateOneToOne(h, o, key, value) ==
    LET current == h[o].f[key]
        target == Relationships(h[o].cls)[key].target
    IN  IF value.k = "none" THEN SetAttr(h, o, key, PyNone)
        ELSE IF value.k = "dict"
        THEN IF current.k = "none"
             THEN SetAttr(Append(h, Construct(target, value)), o, key, PyObj(Len(h) + 1))
             ELSE Apply(h, current.i, value)
        ELSE SetAttr(h, o, key, value)

\* the loop of _update_one_to_many over the items still to do: the heap and
\* new_list so far
ReconcileItems(h, currentList, target, items, newList) ==
    IF items = <<>> THEN [heap |-> h, list |-> newList]
    ELSE LET item == Head(items)
         IN  IF item.k = "dict"
             THEN Bind(FindExisting(h, currentList, KeyVals(target, item)), LAMBDA matched :
                    IF Truthy(matched)
                    THEN Bind(Apply(h, matched.i, item), LAMBDA h1 :
                           ReconcileItems(h1, currentList, target, Tail(items),
                                          Append(newList, matched)))
                    ELSE Bind(Append(h, Construct(target, item)), LAMBDA h1 :
                           ReconcileItems(h1, currentList, target, Tail(items),
                                          Append(newList, PyObj(Len(h1))))))
             ELSE ReconcileItems(h, currentList, target, Tail(items),
                                 Append(newList, item))

\* NestedUpdater._update_one_to_many
UpdateOneToMany(h, o, key, values) ==
    LET currentList == OrEmptyList(h[o].f[key]).s
        target == Relationships(h[o].cls)[key].target
    IN  Bind(ReconcileItems(h, currentList, target, values.s, <<>>), LAMBDA done :
          SetAttr(done.heap, o, key, PyList(done.list)))

\* one key of the payload: the choice NestedUpdater._apply makes
ApplyKey(h, o, key, value) ==
    LET rels == Relationships(h[o].cls)
    IN  IF key \in DOMAIN rels
        THEN IF rels[key].uselist
             THEN UpdateOneToMany(h, o, key, OrEmptyList(value))
             ELSE UpdateOneToOne(h, o, key, value)
        ELSE UpdateScalar(h, o, key, value)

ApplyItems(h, o, pairs) ==
    IF pairs = <<>> THEN h
    ELSE Bind(ApplyKey(h, o, Head(pairs)[1], Head(pairs)[2]), LAMBDA h1 :
           ApplyItems(h1, o, Tail(pairs)))

\* NestedUpdater._apply
Apply(h, o, data) == ApplyItems(h, o, data.s)

(***************************************************************************)
(* The statement DatabaseRepository._get builds, and what the session      *)
(* returns for it.                                                         *)
(***************************************************************************)
RECURSIVE Flatten(_)
Flatten(ss) == IF ss = <<>> THEN <<>> ELSE Head(ss) \o Flatten(Tail(ss))

RECURSIVE SortedSeq(_)
SortedSeq(S) ==
    IF S = {} THEN <<>>
    ELSE LET lo == CHOOSE x \in S : \A y \in S : x <= y
         IN  <<lo>> \o SortedSeq(S \ {lo})

\* the rows of model m, in the store's order
RowsOf(h, tbl, m) == SortedSeq({o \in tbl : h[o].cls = m})

\* the stored rows of class jm that the foreign key relates to instance o
Partners(h, tbl, o, jm) ==
    LET names == {r \in RelNames(h[o].cls) : Relationships(h[o].cls)[r].target = jm}
        v == h[o].f[CHOOSE r \in names : TRUE]
        refs == IF names = {} THEN <<>>
                ELSE IF v.k = "list" THEN v.s
                ELSE IF v.k = "obj" THEN <<v>> ELSE <<>>
    IN  SelectSeq([j \in 1..Len(refs) |-> refs[j].i], LAMBDA x : x \in tbl)

\* stmt.join(jm): every row once per related row (inner join)
JoinStep(h, tbl, rows, jm) ==
    Flatten([j \in 1..Len(rows) |->
                LET ps == Partners(h, tbl, rows[j].main, jm)
                IN  [q \in 1..Len(ps) |->
                        [main |-> rows[j].main, rel |-> Append(rows[j].rel, ps[q])]]])

RECURSIVE JoinAll(_, _, _, _)
JoinAll(h, tbl, rows, joins) ==
    IF joins = <<>> THEN rows
    ELSE JoinAll(h, tbl, JoinStep(h, tbl, rows, Head(joins)), Tail(joins))

\* the instance of a joined row that an expression on class c reads
RowObject(row, m, joins, c) ==
    IF c = m \/ \A j \in 1..Len(joins) : joins[j] # c
    THEN row.main
    ELSE row.rel[CHOOSE j \in 1..Len(joins) : joins[j] = c]

\* SQL comparison: a NULL on either side compares as not true
Compare(op, a, b) ==
    /\ a.k = "int"
    /\ b.k = "int"
    /\ IF op = "eq" THEN a.i = b.i ELSE a.i # b.i

RECURSIVE Holds(_, _, _, _, _)
Holds(h, row, m, joins, c) ==
    CASE c.kind = "binary" ->
            LET o == RowObject(row, m, joins, c.on)
            IN  /\ c.col \in DOMAIN h[o].f
                /\ Compare(c.op, h[o].f[c.col], c.val)
      [] c.kind = "and" -> \A j \in 1..Len(c.args) : Holds(h, row, m, joins, c.args[j])
      [] c.kind = "or" -> \E j \in 1..Len(c.args) : Holds(h, row, m, joins, c.args[j])
      [] c.kind = "unary" -> ~Holds(h, row, m, joins, c.args[1])
      [] OTHER -> c.op = "true"

Min(a, b) == IF a < b THEN a ELSE b

\* session.execute(stmt): join, filter, then OFFSET and LIMIT (0: none)
Execute(h, tbl, stmt) ==
    Bind(RowsOf(h, tbl, stmt.model), LAMBDA base :
      Bind(JoinAll(h, tbl, [j \in 1..Len(base) |-> [main |-> base[j], rel |-> <<>>]],
                   stmt.joins), LAMBDA joined :
        Bind(SelectSeq(joined, LAMBDA row :
                 \A j \in 1..Len(stmt.wheres) :
                     Holds(h, row, stmt.model, stmt.joins, stmt.wheres[j])), LAMBDA kept :
          LET from == Min(stmt.offset, Len(kept)) + 1
              to == IF stmt.limit = 0 THEN Len(kept)
                    ELSE Min(Len(kept), stmt.offset + stmt.limit)
          IN  [j \in 1..(to - from + 1) |-> kept[from + j - 1].main])))

\* a result read without unique(): every row of the statement
KeepsRepeats(q) == q

\* result.unique(): each entity once, at its first place
RECURSIVE Unique(_)
Unique(q) ==
    IF q = <<>> THEN <<>>
    ELSE LET front == Unique(SubSeq(q, 1, Len(q) - 1))
             x == q[Len(q)]
         IN  IF x \in Range(front) THEN front ELSE Append(front, x)

(***************************************************************************)
(* DatabaseRepository._get.  a holds the arguments: pk, filters, load,     *)
(* join_filters, offset, limit, one.                                       *)
(***************************************************************************)
NoStmt == [model |-> "", wheres |-> <<>>, joins |-> <<>>, offset |-> 0, limit |-> 0]
NoDetail == [pk |-> PyNone, filters |-> <<>>, local_filters |-> PyNone,
             global_filters |-> PyNone, load |-> PyNone, offset |-> PyNone]

\* a page size taken once, from the ConfigORM() the module creates on import,
\* instead of from config_orm at the call
LimitAtConstruction(cfg, limit) ==
    IF limit.k = "int" /\ limit.i > 0 THEN limit.i ELSE 1000

\* limit if limit is not None and limit > 0 else config_orm.limit
EffectiveLimit(cfg, limit) ==
    IF limit.k = "int" /\ limit.i > 0 THEN limit.i ELSE cfg.limit

\* the name `filters` after `for model, filters in join_filters.items()`: the
\* loop binds it to each join's list in turn
FiltersAfterJoins(filters, join_filters) ==
    IF Truthy(join_filters)
    THEN join_filters.s[Len(join_filters.s)][2]
    ELSE filters

\* the where clauses of the join loop: each join's filters, one by one
JoinWheres(join_filters) ==
    IF Truthy(join_filters)
    THEN Flatten([j \in 1..Len(join_filters.s) |-> join_filters.s[j][2].s])
    ELSE <<>>

JoinModels(join_filters) ==
    IF Truthy(join_filters)
    THEN [j \in 1..Len(join_filters.s) |-> join_filters.s[j][1]]
    ELSE <<>>

\* the statement of _get, given the resolved pk condition
BuildStmt(cfg, rp, a, pkCond) ==
    LET filters == FiltersAfterJoins(OrEmptyList(a.filters), a.join_filters)
        w1 == IF Truthy(a.pk) THEN <<pkCond>> ELSE <<>>
        w2 == w1 \o JoinWheres(a.join_filters)
        w3 == IF Truthy(filters) THEN Append(w2, And(filters.s)) ELSE w2
        w4 == IF rp.use_local_filters /\ Truthy(rp.local_filters)
              THEN Append(w3, And(rp.local_filters.s)) ELSE w3
        w5 == IF rp.use_global_filters /\ Truthy(cfg.global_filters)
              THEN Append(w4, ResolveGlobalFilters(rp.model, cfg.global_filters)) ELSE w4
    IN  [model |-> rp.model,
         wheres |-> w5,
         joins |-> JoinModels(a.join_filters),
         offset |-> IF Truthy(a.offset) THEN a.offset.i ELSE 0,
         limit |-> EffectiveLimit(cfg, a.limit)]

\* _expand_expression reads expr.left, expr.right and expr.operator, which only
\* a BinaryExpression has
Expandable(c) == c.kind = "binary"
ExpandExpression(c) == <<c.col, c.op, c.val>>

\* the detail of EntryNotFound
Detail(cfg, rp, a) ==
    LET filters == FiltersAfterJoins(OrEmptyList(a.filters), a.join_filters)
    IN  [pk |-> a.pk,
         filters |-> [j \in 1..Len(filters.s) |-> ExpandExpression(filters.s[j])],
         local_filters |-> IF rp.use_local_filters THEN rp.local_filters ELSE PyNone,
         global_filters |-> IF rp.use_global_filters THEN cfg.global_filters ELSE PyNone,
         load |-> OrEmptyList(a.load),
         offset |-> IF Truthy(a.offset) THEN a.offset ELSE PyNone]

\* what _get does once the statement is built: execute, unique, one_or_none or
\* all, and EntryNotFound for a falsy result
Fetch(h, tbl, cfg, rp, a, stmt) ==
    Bind(Unique(Execute(h, tbl, stmt)), LAMBDA rows :
      LET filters == FiltersAfterJoins(OrEmptyList(a.filters), a.join_filters)
          res == IF a.one
                 THEN IF Len(rows) = 0 THEN PyNone ELSE PyObj(rows[1])
                 ELSE PyList([j \in 1..Len(rows) |-> PyObj(rows[j])])
          out(outcome, value, detail) ==
              [outcome |-> outcome, value |-> value, stmt |-> stmt, executed |-> TRUE,
               nrows |-> Len(rows), detail |-> detail]
      IN  IF a.one /\ Len(rows) > 1
          THEN out("MultipleResultsFound", PyNone, NoDetail)
          ELSE IF Truthy(res)
          THEN out("ok", res, NoDetail)
          ELSE IF \E j \in 1..Len(filters.s) : ~Expandable(filters.s[j])
          THEN out("AttributeError", PyNone, NoDetail)
          ELSE out("EntryNotFound", PyNone, Detail(cfg, rp, a)))

\* DatabaseRepository._get
Get(h, tbl, cfg, rp, a) ==
    Bind(IF Truthy(a.pk) THEN ResolvePkCondition(rp.model, a.pk) ELSE Return(And(<<>>)),
         LAMBDA pkRes :
      IF pkRes.outcome # "ok"
      THEN [outcome |-> pkRes.outcome, value |-> PyNone, stmt |-> NoStmt,
            executed |-> FALSE, nrows |-> 0, detail |-> NoDetail]
      ELSE Bind(BuildStmt(cfg, rp, a, pkRes.value), LAMBDA stmt :
             Fetch(h, tbl, cfg, rp, a, stmt)))

\* the arguments get_one passes to _get
GetOneArgs(pk, load, join_filters) ==
    [pk |-> pk, filters |-> PyNone, load |-> load, join_filters |-> join_filters,
     offset |-> PyInt(0), limit |-> PyNone, one |-> TRUE]

\* the arguments get_many passes to _get
GetManyArgs(filters, load, join_filters, offset, limit) ==
    [pk |-> PyNone, filters |-> filters, load |-> load, join_filters |-> join_filters,
     offset |-> offset, limit |-> limit, one |-> FALSE]

\* DatabaseRepository.get_one
GetOne(pk, load, join_filters) ==
    /\ last = NoCall
    /\ \E r \in {Get(heap, table, config, repo, GetOneArgs(pk, load, join_filters))} :
          last' = [op |-> "get_one", args |-> GetOneArgs(pk, load, join_filters), res |-> r]
    /\ UNCHANGED <<heap, table, config, repo>>

\* DatabaseRepository.get_many
GetMany(filters, load, join_filters, offset, limit) ==
    /\ last = NoCall
    /\ \E r \in {Get(heap, table, config, repo,
                      GetManyArgs(filters, load, join_filters, offset, limit))} :
          last' = [op |-> "get_many",
                   args |-> GetManyArgs(filters, load, join_filters, offset, limit),
                   res |-> r]
    /\ UNCHANGED <<heap, table, config, repo>>

(***************************************************************************)
(* The state after construction: nothing loaded, an empty store, the       *)
(* module-level config_orm = ConfigORM(), a repository with its defaults.  *)
(***************************************************************************)
DefaultLimit == 1000

InitConfig == [limit |-> DefaultLimit, global_filters |-> PyNone]

InitRepo(m) ==
    [model |-> m, local_filters |-> PyNone,
     use_local_filters |-> TRUE, use_global_filters |-> TRUE]

\* the heap is a sequence of instances: an instance's id is its index
EmptyHeap == <<>>

(***************************************************************************)
(* The inputs of the resolvers.                                            *)
(***************************************************************************)
SeqsUpTo(S, n) == UNION {[1..len -> S] : len \in 0..n}

DistinctKeys(q) == \A a, b \in 1..Len(q) : q[a][1] = q[b][1] => a = b

IntVals == {PyInt(v) : v \in Vals}

\* mappings over the key names a caller may write, in any insertion order
PkKeyNames == {"id", "serial", "name"}
DictPks ==
    {PyDict(q) : q \in {r \in SeqsUpTo(PkKeyNames \X IntVals, MaxPkLen) : DistinctKeys(r)}}
TuplePks == {PyTuple(q) : q \in SeqsUpTo(IntVals, MaxPkLen)}
ListPks == {PyList(q) : q \in SeqsUpTo(IntVals, MaxPkLen)}
ScalarPks == IntVals \cup {PyNone}
PkInputs == DictPks \cup TuplePks \cup ListPks \cup ScalarPks

PkModels == {"TModel1", "TModel2"}

\* global filter maps: a declared column, a field no model declares, an
\* attribute that is no column
GlobalKeyNames == {"name", "is_active", "repr_cols_num"}
GlobalMaps ==
    {PyDict(q) : q \in {r \in SeqsUpTo(GlobalKeyNames \X IntVals, 2) : DistinctKeys(r)}}

(***************************************************************************)
(* The resolvers applied to every input.                                   *)
(***************************************************************************)
ApplyResolvePk(m, pk) ==
    /\ last = NoCall
    /\ last' = [op |-> "_resolve_pk_condition", model |-> m, pk |-> pk,
                res |-> ResolvePkCondition(m, pk)]
    /\ UNCHANGED <<heap, table, config, repo>>

ApplyResolveGlobal(m, G) ==
    /\ last = NoCall
    /\ last' = [op |-> "_resolve_global_filters", model |-> m, filters |-> G,
                res |-> ResolveGlobalFilters(m, G)]
    /\ UNCHANGED <<heap, table, config, repo>>

InitResolve ==
    /\ heap = EmptyHeap
    /\ table = {}
    /\ config = InitConfig
    /\ repo = InitRepo("TModel1")
    /\ last = NoCall

\* the caller takes the result
Done ==
    /\ last # NoCall
    /\ last' = NoCall
    /\ UNCHANGED <<heap, table, config, repo>>

NextResolve ==
    \/ \E m \in PkModels, pk \in PkInputs : ApplyResolvePk(m, pk)
    \/ \E m \in PkModels, G \in GlobalMaps : ApplyResolveGlobal(m, G)
    \/ Done

SpecResolve == InitResolve /\ [][NextResolve]_vars

(***************************************************************************)
(* C1.  With N declared primary-key fields, _resolve_pk_condition succeeds *)
(* for a mapping whose key set is exactly the N field names, and raises    *)
(* ORMException for a mapping with any other key set, for a tuple or list  *)
(* whose length is not N, and for a bare scalar when N > 1.                *)
(***************************************************************************)
IsPkCall == last.op = "_resolve_pk_condition"

C1_PkShape ==
    IsPkCall =>
        LET cols == PrimaryKey(last.model)
            N == Len(cols)
            pk == last.pk
        IN  /\ (pk.k = "dict" /\ DictKeys(pk) = Range(cols)) => last.res.outcome = "ok"
            /\ (pk.k = "dict" /\ DictKeys(pk) # Range(cols))
                    => last.res.outcome = "ORMException"
            /\ (pk.k \in {"tuple", "list"} /\ Len(pk.s) # N)
                    => last.res.outcome = "ORMException"
            /\ (pk.k \in {"none", "int"} /\ N > 1) => last.res.outcome = "ORMException"

\* a composite key given as a tuple that is too long has been refused
C1_Witness ==
    /\ IsPkCall
    /\ last.model = "TModel1"
    /\ last.pk.k = "tuple"
    /\ Len(last.pk.s) = 3
    /\ last.res.outcome = "ORMException"

(***************************************************************************)
(* The repository over a store that already holds rows.                    *)
(***************************************************************************)
\* the most rows of one model the store holds
MaxRows == 2

TModel1Row(n, j) ==
    [cls |-> "TModel1",
     f |-> [name \in FieldNames("TModel1") |->
               CASE name = "relation_models" ->
                        IF j = 1 THEN PyList(<<PyObj(2 * n + 1), PyObj(2 * n + 2)>>)
                        ELSE PyList(<<>>)
                 [] name = "name" -> PyInt((j - 1) % 2)
                 [] OTHER -> PyInt(j - 1)]]

TModel2Row(n, j) ==
    [cls |-> "TModel2",
     f |-> [name \in FieldNames("TModel2") |->
               CASE name = "relation_model" ->
                        IF j = 1 THEN PyObj(2 * n + 3) ELSE PyNone
                 [] name = "name" -> PyInt((j - 1) % 2)
                 [] OTHER -> PyInt(j - 1)]]

RelationModel1Row(id) ==
    [cls |-> "RelationModel1",
     f |-> [name \in FieldNames("RelationModel1") |->
               CASE name = "id" -> PyInt(id)
                 [] name \in {"test_model1_id", "test_model1_serial"} -> PyInt(0)
                 [] OTHER -> PyNone]]

RelationModel2Row(id) ==
    [cls |-> "RelationModel2",
     f |-> [name \in FieldNames("RelationModel2") |->
               CASE name = "id" -> PyInt(id)
                 [] name = "test_model2_id" -> PyInt(0)
                 [] OTHER -> PyNone]]

\* n rows of TModel1 and of TModel2 (keys 0..n-1); the first TModel1 row has
\* two related rows, the first TModel2 row one
StoreOf(n) ==
    IF n = 0 THEN <<>>
    ELSE [j \in 1..n |-> TModel1Row(n, j)] \o [j \in 1..n |-> TModel2Row(n, j)]
         \o <<RelationModel1Row(0), RelationModel1Row(1), RelationModel2Row(0)>>

RelatedModel(m) == IF m = "TModel1" THEN "RelationModel1" ELSE "RelationModel2"

\* the local filter sets a repository is constructed with
LocalFilterSets(m) == {PyNone, PyList(<<Binary(m, "name", "eq", PyInt(1))>>)}

\* the flags of a repository: each of the two filter flags off in turn
RepoSettings(m) ==
    {[model |-> m, local_filters |-> lf, use_local_filters |-> ul, use_global_filters |-> ug] :
        lf \in LocalFilterSets(m), ul \in BOOLEAN, ug \in BOOLEAN}

\* the global filter maps of config_orm: none, a declared column, a field the
\* model does not declare, an attribute that is no column
ConfigMaps ==
    {PyNone,
     PyDict(<<<<"name", PyInt(1)>>>>),
     PyDict(<<<<"is_active", PyInt(1)>>>>),
     PyDict(<<<<"repr_cols_num", PyInt(1)>>>>),
     PyDict(<<<<"is_active", PyInt(1)>>, <<"id", PyInt(0)>>>>)}

\* ad hoc filters: plain comparisons, an or_() of two, a not_() of an or_()
AdHocFilters(m) ==
    {PyNone,
     PyList(<<Binary(m, "name", "eq", PyInt(0))>>),
     PyList(<<Binary(m, "id", "ne", PyInt(0)), Binary(m, "name", "eq", PyInt(1))>>),
     PyList(<<Or(<<Binary(m, "id", "eq", PyInt(0)), Binary(m, "id", "eq", PyInt(1))>>)>>),
     PyList(<<Not(Or(<<Binary(m, "id", "eq", PyInt(0)), Binary(m, "id", "eq", PyInt(1))>>))>>)}

\* join_filters: none, a join with one filter on the related model, a join
\* with no filter
JoinFilterSets(m) ==
    {PyNone,
     PyDict(<<<<RelatedModel(m), PyList(<<Binary(RelatedModel(m), "id", "eq", PyInt(0))>>)>>>>),
     PyDict(<<<<RelatedModel(m), PyList(<<>>)>>>>)}

OptInts == IntVals \cup {PyNone}

InitRepoSpec ==
    /\ \E n \in 0..MaxRows :
          /\ heap = StoreOf(n)
          /\ table = 1..Len(StoreOf(n))
    /\ config \in {[limit |-> DefaultLimit, global_filters |-> G] : G \in ConfigMaps}
    /\ \E m \in PkModels : repo \in RepoSettings(m)
    /\ last = NoCall

NextRepo ==
    \/ \E pk \in PkInputs, jf \in JoinFilterSets(repo.model) : GetOne(pk, PyNone, jf)
    \/ \E fs \in AdHocFilters(repo.model), jf \in JoinFilterSets(repo.model),
           offset \in OptInts, limit \in OptInts :
            GetMany(fs, PyNone, jf, offset, limit)
    \/ Done

SpecRepo == InitRepoSpec /\ [][NextRepo]_vars

IsRead == last.op \in {"get_one", "get_many"}

(***************************************************************************)
(* C2.  For primary-key columns c1..cN in declared order and values        *)
(* v1..vN, get_one queries with the conjunction c1 = v1 AND ... AND        *)
(* cN = vN whether pk is the tuple, the list, or a mapping written in any  *)
(* key order, and so returns the same entity for all three forms.          *)
(***************************************************************************)
WellFormedPk(m, pk) ==
    \/ pk.k \in {"tuple", "list"} /\ Len(pk.s) = Len(PrimaryKey(m))
    \/ pk.k = "dict" /\ DictKeys(pk) = Range(PrimaryKey(m))

\* the value the caller wrote for column col
WrittenValue(m, pk, col) ==
    IF pk.k = "dict"
    THEN (CHOOSE p \in Range(pk.s) : p[1] = col)[2]
    ELSE pk.s[CHOOSE j \in 1..Len(PrimaryKey(m)) : PrimaryKey(m)[j] = col]

WrittenKey(m, pk) ==
    [j \in 1..Len(PrimaryKey(m)) |-> WrittenValue(m, pk, PrimaryKey(m)[j])]

C2_SameConditionForAllForms ==
    (last.op = "get_one" /\ WellFormedPk(repo.model, last.args.pk)) =>
        LET m == repo.model
            key == WrittenKey(m, last.args.pk)
            asTuple == Get(heap, table, config, repo,
                           [last.args EXCEPT !.pk = PyTuple(key)])
        IN  /\ last.res.executed
            /\ last.res.stmt.wheres[1] =
                    And([j \in 1..Len(key) |-> Binary(m, PrimaryKey(m)[j], "eq", key[j])])
            /\ last.res.outcome = asTuple.outcome
            /\ last.res.value = asTuple.value

\* a composite key written as a mapping with serial before id found its row
C2_Witness ==
    /\ last.op = "get_one"
    /\ repo.model = "TModel1"
    /\ last.args.pk = PyDict(<<<<"serial", PyInt(1)>>, <<"id", PyInt(1)>>>>)
    /\ last.res.outcome = "ok"
    /\ heap[last.res.value.i].f["id"] = PyInt(1)

(***************************************************************************)
(* C3.  Whenever the query of get_one or get_many yields zero rows the     *)
(* call raises EntryNotFound, for every combination of arguments: any kind *)
(* of ad hoc filter expression, any offset, any join_filters.              *)
(***************************************************************************)
C3_ZeroRowsRaiseEntryNotFound ==
    (IsRead /\ last.res.executed /\ last.res.nrows = 0) =>
        last.res.outcome = "EntryNotFound"

(***************************************************************************)
(* C4.  The predicate of every read is the AND of every ad hoc filter, of  *)
(* every local filter when use_local_filters is true and local filters are *)
(* set, and of the resolved global filters when use_global_filters is true *)
(* and global filters are set (next to the primary-key condition and the   *)
(* join filters); ad hoc filters stay conjuncts when join_filters is given.*)
(***************************************************************************)
\* the conjuncts of a list of where clauses
Conjuncts(wheres) ==
    UNION {IF wheres[j].kind = "and" THEN Range(wheres[j].args) ELSE {wheres[j]} :
              j \in 1..Len(wheres)}

ListItems(x) == IF x.k = "list" THEN Range(x.s) ELSE {}

C4_PredicateIsConjunction ==
    (IsRead /\ last.res.executed) =>
        Conjuncts(last.res.stmt.wheres) =
            (IF Truthy(last.args.pk)
             THEN Range(ResolvePkCondition(repo.model, last.args.pk).value.args) ELSE {})
            \cup Range(JoinWheres(last.args.join_filters))
            \cup ListItems(last.args.filters)
            \cup (IF repo.use_local_filters THEN ListItems(repo.local_filters) ELSE {})
            \cup (IF repo.use_global_filters /\ Truthy(config.global_filters)
                  THEN Range(ResolveGlobalFilters(repo.model, config.global_filters).args)
                  ELSE {})

(***************************************************************************)
(* C5.  The resolved global filters are the AND of equality conditions for *)
(* exactly the keys of the global filter map that the model declares as    *)
(* fields; other keys are dropped, and when no key is declared a read      *)
(* returns what it returns with global filters disabled.                   *)
(***************************************************************************)
DeclaredPart(m, G) == SelectSeq(G.s, LAMBDA p : p[1] \in Columns(m))

C5_OnlyDeclaredFieldsFilter ==
    (IsRead /\ last.res.executed /\ repo.use_global_filters
            /\ Truthy(config.global_filters)) =>
        LET m == repo.model
            declared == DeclaredPart(m, config.global_filters)
            wheres == last.res.stmt.wheres
            disabled == Get(heap, table, config,
                            [repo EXCEPT !.use_global_filters = FALSE], last.args)
        IN  /\ wheres[Len(wheres)] =
                    And([j \in 1..Len(declared) |->
                            Binary(m, declared[j][1], "eq", declared[j][2])])
            /\ declared = <<>> =>
                    /\ last.res.outcome = disabled.outcome
                    /\ last.res.value = disabled.value

(***************************************************************************)
(* NestedUpdater(entry).update(data) on a loaded entity.  The entry is     *)
(* object 1; the repository builds one NestedUpdater per update.           *)
(***************************************************************************)
\* the most items of a to-many payload, and of the collection before it
MaxItems == 2

\* a loaded RelationModel1 with primary key id
LoadedItem(id) ==
    [cls |-> "RelationModel1",
     f |-> [name \in FieldNames("RelationModel1") |->
               CASE name = "id" -> PyInt(id)
                 [] name \in {"test_model1_id", "test_model1_serial"} -> PyInt(0)
                 [] OTHER -> PyNone]]

\* a TModel1 with k related items (ids 1..k, objects 2..k+1), and one more
\* RelationModel1 instance that is in no collection (object k+2)
LoadedTModel1(k) ==
    <<[cls |-> "TModel1",
       f |-> [name \in FieldNames("TModel1") |->
                 CASE name = "relation_models" -> PyList([j \in 1..k |-> PyObj(j + 1)])
                   [] name = "name" -> PyInt(0)
                   [] OTHER -> PyInt(1)]]>>
    \o [j \in 1..(k + 1) |-> LoadedItem(j)]

\* a TModel2 with or without its related object; object 2 is a RelationModel2
LoadedTModel2(related) ==
    <<[cls |-> "TModel2",
       f |-> [name \in FieldNames("TModel2") |->
                 CASE name = "relation_model" -> IF related THEN PyObj(2) ELSE PyNone
                   [] name = "name" -> PyInt(0)
                   [] OTHER -> PyInt(1)]],
      [cls |-> "RelationModel2",
       f |-> [name \in FieldNames("RelationModel2") |->
                 CASE name = "id" -> PyInt(1)
                   [] name = "test_model2_id" -> PyInt(0)
                   [] OTHER -> PyNone]]>>

NewVals == {PyInt(1), PyInt(2)}

\* the items of a to-many payload over a heap h: mappings with the key, with
\* the key and a field, with a field only, and instances
ItemChoices(h) ==
    {PyDict(<<<<"id", PyInt(v)>>>>) : v \in 1..(MaxItems + 1)}
    \cup {PyDict(<<<<"id", PyInt(v)>>, <<"test_model1_id", w>>>>) :
              v \in 1..(MaxItems + 1), w \in NewVals}
    \cup {PyDict(<<<<"test_model1_id", w>>>>) : w \in NewVals}
    \cup {PyObj(o) : o \in 2..Len(h)}

Optional(pairs) == {<<>>} \cup {<<p>> : p \in pairs}

TModel1Payloads(h) ==
    {PyDict(np \o rp) :
        np \in Optional({<<"name", PyInt(1)>>}),
        rp \in Optional({<<"relation_models", PyNone>>}
                        \cup {<<"relation_models", PyList(items)>> :
                                  items \in SeqsUpTo(ItemChoices(h), MaxItems)})}

TModel2Payloads ==
    {PyDict(np \o rp) :
        np \in Optional({<<"name", PyInt(1)>>}),
        rp \in Optional({<<"relation_model", v>> :
                            v \in {PyNone, PyObj(2), PyDict(<<>>),
                                   PyDict(<<<<"test_model2_id", PyInt(1)>>>>),
                                   PyDict(<<<<"id", PyInt(2)>>>>),
                                   PyDict(<<<<"id", PyInt(2)>>,
                                            <<"test_model2_id", PyInt(1)>>>>)}})}

UpdPayloads(h) == IF h[1].cls = "TModel1" THEN TModel1Payloads(h) ELSE TModel2Payloads

\* NestedUpdater.update: applies the payload and returns self.entry
NestedUpdate(data) ==
    /\ last = NoCall
    /\ \E h1 \in {Apply(heap, 1, data)} : heap' = h1
    /\ last' = [op |-> "update", entry |-> 1, data |-> data, pre |-> heap, ret |-> 1]
    /\ UNCHANGED <<table, config, repo>>

InitUpd ==
    /\ heap \in {LoadedTModel1(k) : k \in 0..MaxItems}
                 \cup {LoadedTModel2(r) : r \in BOOLEAN}
    /\ table = {}
    /\ config = InitConfig
    /\ repo = InitRepo(heap[1].cls)
    /\ last = NoCall

NextUpd ==
    /\ last = NoCall
    /\ \E data \in UpdPayloads(heap) : NestedUpdate(data)

SpecUpd == InitUpd /\ [][NextUpd]_vars

(***************************************************************************)
(* Properties of NestedUpdater.update                                      *)
(***************************************************************************)
IsUpd == last.op = "update"

Refs(list) == {list[j].i : j \in 1..Len(list)}

\* the mapping item carries every primary-key field of target and object o
\* of heap h has those values
SameKey(h, o, target, item) ==
    /\ item.k = "dict"
    /\ \A col \in Range(PrimaryKey(target)) :
           DictHas(item, col) /\ h[o].f[col] = DictGet(item, col)

IsToManyUpdate ==
    /\ IsUpd
    /\ last.pre[1].cls = "TModel1"
    /\ DictHas(last.data, "relation_models")
    /\ DictGet(last.data, "relation_models").k = "list"

\* C6: NestedUpdater on a to-many relationship with a list payload: a mapping
\* item whose primary-key values equal those of an item of the current
\* collection is reconciled into that same object, and only fields named by
\* the items matching that object change; a mapping item without a match
\* becomes a newly constructed entity; an item of the old collection that the
\* payload does not reference again is absent afterwards; instances are kept
\* as given.
C6_ToManyReconciled ==
    IsToManyUpdate =>
        LET pre == last.pre
            target == "RelationModel1"
            items == DictGet(last.data, "relation_models").s
            before == pre[1].f.relation_models.s
            after == heap[1].f.relation_models.s
            matches(j) == {o \in Refs(before) : SameKey(pre, o, target, items[j])}
            matching(o) == {j \in 1..Len(items) : SameKey(pre, o, target, items[j])}
            named(o) == UNION {DictKeys(items[j]) : j \in matching(o)}
            fresh(j) == after[j].k = "obj" /\ after[j].i > Len(pre)
        IN  /\ Len(after) = Len(items)
            /\ \A j \in 1..Len(items) :
                  IF items[j].k # "dict" THEN after[j] = items[j]
                  ELSE IF matches(j) # {}
                  THEN /\ after[j].k = "obj"
                       /\ after[j].i \in matches(j)
                       /\ \A name \in FieldNames(target) \ named(after[j].i) :
                              heap[after[j].i].f[name] = pre[after[j].i].f[name]
                       /\ \A n \in 1..Len(items[j].s) :
                              (\A q \in matching(after[j].i) :
                                   q > j => ~DictHas(items[q], items[j].s[n][1]))
                              => heap[after[j].i].f[items[j].s[n][1]] = items[j].s[n][2]
                  ELSE /\ fresh(j)
                       /\ heap[after[j].i] = Construct(target, items[j])
                       /\ \A q \in 1..Len(items) :
                              (q # j /\ items[q].k = "dict") => after[q] # after[j]
            /\ \A o \in Refs(before) :
                  (matching(o) = {} /\ \A j \in 1..Len(items) : items[j] # PyObj(o))
                  => o \notin Refs(after)

\* the spec scenario: two existing items, the payload reconciles the first
\* and adds an item without a primary key
ScenarioPayload ==
    <<PyDict(<<<<"id", PyInt(1)>>, <<"test_model1_id", PyInt(1)>>>>),
      PyDict(<<<<"test_model1_id", PyInt(2)>>>>)>>

\* C7: a mapping item of a to-many payload matches an existing item only when
\* its values for all primary-key fields equal that item's; an item carrying
\* no primary-key field matches nothing, yields a new entity and leaves the
\* existing items' fields untouched; in the scenario the collection becomes
\* the original first item with the new value and one new item, the second
\* item dropped.
C7_KeylessItemIsNew ==
    IsToManyUpdate =>
        LET pre == last.pre
            target == "RelationModel1"
            items == DictGet(last.data, "relation_models").s
            before == pre[1].f.relation_models.s
            after == heap[1].f.relation_models.s
            keyless(j) == /\ items[j].k = "dict"
                          /\ \A col \in Range(PrimaryKey(target)) : ~DictHas(items[j], col)
        IN  /\ \A j \in 1..Len(items) :
                  (items[j].k = "dict" /\ after[j].i <= Len(pre))
                  => SameKey(pre, after[j].i, target, items[j])
            /\ \A j \in 1..Len(items) :
                  keyless(j) => /\ after[j].i > Len(pre)
                                /\ heap[after[j].i] = Construct(target, items[j])
            /\ \A o \in Refs(before) :
                  (\A j \in 1..Len(items) : ~SameKey(pre, o, target, items[j]))
                  => heap[o] = pre[o]
            /\ (pre = LoadedTModel1(2) /\ items = ScenarioPayload)
               => /\ Len(after) = 2
                  /\ after[1] = PyObj(2)
                  /\ heap[2].f.test_model1_id = PyInt(1)
                  /\ after[2].i > Len(pre)
                  /\ heap[after[2].i].f.test_model1_id = PyInt(2)
                  /\ PyObj(3) \notin Range(after)

IsToOneUpdate ==
    /\ IsUpd
    /\ last.pre[1].cls = "TModel2"
    /\ DictHas(last.data, "relation_model")

\* C8: NestedUpdater on a to-one relationship key: None sets the relationship
\* to absent; a mapping constructs a new related entity when there is no
\* related object, and otherwise is reconciled into the related object, which
\* stays the same object; an entity instance replaces the related object
\* directly, untouched.
C8_ToOneReconciled ==
    IsToOneUpdate =>
        LET pre == last.pre
            target == "RelationModel2"
            value == DictGet(last.data, "relation_model")
            current == pre[1].f.relation_model
            now == heap[1].f.relation_model
        IN  CASE value.k = "none" -> now = PyNone /\ heap[2] = pre[2]
              [] value.k = "dict" ->
                    IF current = PyNone
                    THEN /\ now.k = "obj"
                         /\ now.i > Len(pre)
                         /\ heap[now.i] = Construct(target, value)
                         /\ heap[2] = pre[2]
                    ELSE /\ now = current
                         /\ Len(heap) = Len(pre)
                         /\ \A name \in FieldNames(target) :
                                heap[current.i].f[name] =
                                    IF DictHas(value, name) THEN DictGet(value, name)
                                    ELSE pre[current.i].f[name]
              [] OTHER -> now = value /\ heap[value.i] = pre[value.i]

\* a mapping was reconciled into the related object that was already there
C8_Witness ==
    /\ IsToOneUpdate
    /\ last.pre[1].f.relation_model = PyObj(2)
    /\ DictGet(last.data, "relation_model") = PyDict(<<<<"test_model2_id", PyInt(1)>>>>)
    /\ heap[1].f.relation_model = PyObj(2)
    /\ heap[2].f.test_model2_id = PyInt(1)

(***************************************************************************)
(* The pydantic schemas of src/tests/models.py and the DTO values built    *)
(* from them.  A DTO is [k = "dto", c = its schema, s = its fields in      *)
(* declared order], each field <<name, value, set>>: set says the field is *)
(* in model_fields_set.                                                    *)
(***************************************************************************)
Scalar(name, nullable) == [name |-> name, kind |-> "scalar", of |-> "", nullable |-> nullable]
One(name, of, nullable) == [name |-> name, kind |-> "one", of |-> of, nullable |-> nullable]
Many(name, of, nullable) == [name |-> name, kind |-> "many", of |-> of, nullable |-> nullable]

\* the declared fields: `int | None = None` takes None, `int = None` only has
\* it as the default
SchemaFields(sc) ==
    CASE sc = "TModel1Schema" ->
            <<Scalar("id", TRUE), Scalar("serial", TRUE), Scalar("name", TRUE)>>
      [] sc = "TModel2Schema" ->
            <<Scalar("id", FALSE), Scalar("name", FALSE)>>
      [] sc = "RelationModel1Schema" ->
            <<Scalar("id", TRUE), Scalar("test_model1_id", TRUE),
              Scalar("test_model1_serial", TRUE)>>
      [] sc = "RelationModel2Schema" ->
            <<Scalar("id", FALSE), Scalar("test_model2_id", FALSE)>>
      [] sc = "TModel1Rel1Schema" ->
            <<Scalar("id", TRUE), Scalar("serial", TRUE), Scalar("name", TRUE),
              Many("relation_models", "RelationModel1Schema", FALSE)>>
      [] sc = "TModel2Rel2Schema" ->
            <<Scalar("id", FALSE), Scalar("name", FALSE),
              One("relation_model", "RelationModel2Schema", FALSE)>>
      [] sc = "RelRelSchema" ->
            <<Scalar("id", TRUE), Scalar("relation_model1_id", TRUE)>>
      [] sc = "RelationModel1RelRel1Schema" ->
            <<Scalar("id", TRUE), Scalar("test_model1_id", TRUE),
              Scalar("test_model1_serial", TRUE), One("rel_rel1", "RelRelSchema", TRUE)>>
      [] sc = "TModel1Rel1RelRel1Schema" ->
            <<Scalar("id", TRUE), Scalar("serial", TRUE), Scalar("name", TRUE),
              Many("relation_models", "RelationModel1RelRel1Schema", TRUE)>>

\* the schemas that mirror a model
SchemasOf(m) ==
    CASE m = "TModel1" -> {"TModel1Schema", "TModel1Rel1Schema", "TModel1Rel1RelRel1Schema"}
      [] m = "TModel2" -> {"TModel2Schema", "TModel2Rel2Schema"}
      [] m = "RelationModel1" -> {"RelationModel1Schema", "RelationModel1RelRel1Schema"}
      [] m = "RelationModel2" -> {"RelationModel2Schema"}
      [] m = "RelRel1" -> {"RelRelSchema"}

Dto(sc, fields) == [k |-> "dto", c |-> sc, i |-> 0, s |-> fields]

\* a field left at its default, a field given a value
Default(name) == <<name, PyNone, FALSE>>
Given(name, value) == <<name, value, TRUE>>

DtoField(d, name) == d.s[CHOOSE n \in 1..Len(d.s) : d.s[n][1] = name]

RECURSIVE DumpValue(_, _)
\* BaseModel.model_dump(exclude_unset=...): nested models become dicts, in
\* lists too; exclude_unset keeps the fields of model_fields_set only
DumpValue(v, excludeUnset) ==
    IF v.k = "dto"
    THEN LET kept == SelectSeq(v.s, LAMBDA t : ~excludeUnset \/ t[3])
         IN  PyDict([n \in 1..Len(kept) |->
                        <<kept[n][1], DumpValue(kept[n][2], excludeUnset)>>])
    ELSE IF v.k = "list"
    THEN PyList([n \in 1..Len(v.s) |-> DumpValue(v.s[n], excludeUnset)])
    ELSE v

\* schema.model_dump()
ModelDump(d) == DumpValue(d, FALSE)

\* a dump for update that keeps the fields never set
DumpEveryField(d) == DumpValue(d, FALSE)

\* data.model_dump(exclude_unset=True)
ModelDumpExcludeUnset(d) == DumpValue(d, TRUE)

(***************************************************************************)
(* ORMBuilder.  Each operator returns [outcome, heap, value]: the entity   *)
(* instances it built are appended to the heap.                            *)
(***************************************************************************)
\* ORMBuilder._extract_data
ExtractData(schema) ==
    IF schema.k = "dto" THEN [outcome |-> "ok", value |-> ModelDump(schema)]
    ELSE IF schema.k = "dict" THEN [outcome |-> "ok", value |-> schema]
    ELSE [outcome |-> "TypeError", value |-> PyNone]

\* ORMBuilder._get_related_model_class ("" for None)
GetRelatedModelClass(m, field_name) ==
    IF field_name \in RelNames(m) THEN Relationships(m)[field_name].target ELSE ""

RECURSIVE CreateModelFromSchema(_, _, _)
RECURSIVE BuildList(_, _, _, _)
RECURSIVE BuildFields(_, _, _, _)

\* [self._create_model_from_schema(v, related_class) for v in value]
BuildList(h, items, related, built) ==
    IF items = <<>> THEN [outcome |-> "ok", heap |-> h, value |-> PyList(built)]
    ELSE Bind(CreateModelFromSchema(h, Head(items), related), LAMBDA r :
             IF r.outcome # "ok" THEN r
             ELSE BuildList(r.heap, Tail(items), related, Append(built, r.value)))

\* an else branch that hands the value of the relationship field on as it is
KeepsOtherValue(field_name, value, model_kwargs) ==
    Append(model_kwargs, <<field_name, value>>)

\* the if/elif has no else: a relationship value that is neither a list nor
\* a dict sets no keyword
SkipsOtherValue(field_name, value, model_kwargs) == model_kwargs

\* the loop over data.items(): model_kwargs so far
BuildFields(h, pairs, m, model_kwargs) ==
    IF pairs = <<>> THEN [outcome |-> "ok", heap |-> h, value |-> PyDict(model_kwargs)]
    ELSE LET field_name == Head(pairs)[1]
             value == Head(pairs)[2]
             related == GetRelatedModelClass(m, field_name)
         IN  IF related # ""
             THEN IF value.k = "list"
                  THEN Bind(BuildList(h, value.s, related, <<>>), LAMBDA r :
                           IF r.outcome # "ok" THEN r
                           ELSE BuildFields(r.heap, Tail(pairs), m,
                                            Append(model_kwargs, <<field_name, r.value>>)))
                  ELSE IF value.k = "dict"
                  THEN Bind(CreateModelFromSchema(h, value, related), LAMBDA r :
                           IF r.outcome # "ok" THEN r
                           ELSE BuildFields(r.heap, Tail(pairs), m,
                                            Append(model_kwargs, <<field_name, r.value>>)))
                  ELSE BuildFields(h, Tail(pairs), m,
                                   SkipsOtherValue(field_name, value, model_kwargs))
             ELSE BuildFields(h, Tail(pairs), m, Append(model_kwargs, <<field_name, value>>))

\* ORMBuilder._create_model_from_schema; the declarative constructor raises
\* TypeError for a keyword that is no attribute of the class
CreateModelFromSchema(h, schema, m) ==
    Bind(ExtractData(schema), LAMBDA data :
        IF data.outcome # "ok" THEN [outcome |-> "TypeError", heap |-> h, value |-> PyNone]
        ELSE Bind(BuildFields(h, data.value.s, m, <<>>), LAMBDA b :
               IF b.outcome # "ok" THEN b
               ELSE IF \E key \in DictKeys(b.value) : ~HasAttr(m, key)
               THEN [outcome |-> "TypeError", heap |-> b.heap, value |-> PyNone]
               ELSE [outcome |-> "ok", heap |-> Append(b.heap, Construct(m, b.value)),
                     value |-> PyObj(Len(b.heap) + 1)]))

\* ORMBuilder.convert
Convert(h, schema, m) == CreateModelFromSchema(h, schema, m)

(***************************************************************************)
(* schema.model_validate(model, from_attributes=True)                      *)
(***************************************************************************)
RECURSIVE ModelValidate(_, _, _)

\* one field read from the instance: an attribute the instance lacks leaves
\* the default; None is valid only for a field declared with None
ValidateField(h, o, fld) ==
    IF fld.name \notin DOMAIN h[o].f
    THEN [ok |-> TRUE, field |-> Default(fld.name)]
    ELSE LET v == h[o].f[fld.name]
         IN  IF v.k = "none"
             THEN [ok |-> fld.nullable, field |-> Given(fld.name, PyNone)]
             ELSE IF fld.kind = "scalar"
             THEN [ok |-> v.k = "int", field |-> Given(fld.name, v)]
             ELSE IF fld.kind = "one"
             THEN IF v.k # "obj" THEN [ok |-> FALSE, field |-> Default(fld.name)]
                  ELSE LET r == ModelValidate(h, v.i, fld.of)
                       IN  [ok |-> r.outcome = "ok", field |-> Given(fld.name, r.value)]
             ELSE IF v.k # "list" \/ \E n \in 1..Len(v.s) : v.s[n].k # "obj"
                  THEN [ok |-> FALSE, field |-> Default(fld.name)]
                  ELSE LET rs == [n \in 1..Len(v.s) |-> ModelValidate(h, v.s[n].i, fld.of)]
                       IN  [ok |-> \A n \in 1..Len(rs) : rs[n].outcome = "ok",
                            field |-> Given(fld.name,
                                            PyList([n \in 1..Len(rs) |-> rs[n].value]))]

ModelValidate(h, o, sc) ==
    LET fs == SchemaFields(sc)
        rs == [n \in 1..Len(fs) |-> ValidateField(h, o, fs[n])]
    IN  IF \A n \in 1..Len(rs) : rs[n].ok
        THEN [outcome |-> "ok", value |-> Dto(sc, [n \in 1..Len(rs) |-> rs[n].field])]
        ELSE [outcome |-> "ValidationError", value |-> PyNone]

(***************************************************************************)
(* session.flush() over the tables src/tests/models.py declares: pending   *)
(* instances reachable from the session's instances are inserted (cascade  *)
(* save-update), single integer keys left None are generated, the foreign  *)
(* key columns of related rows are set from the parent's key, rows taken   *)
(* out of a delete-orphan relationship are deleted, and a NULL column or a *)
(* duplicate key raises IntegrityError.  The instances of the model hold   *)
(* their relationships on the parent's side.                               *)
(***************************************************************************)
\* the instances the relationship attributes of o refer to
RefsOf(h, o) ==
    UNION {LET v == h[o].f[r]
           IN  IF v.k = "list" THEN {v.s[n].i : n \in {q \in 1..Len(v.s) : v.s[q].k = "obj"}}
               ELSE IF v.k = "obj" THEN {v.i} ELSE {}
           : r \in RelNames(h[o].cls) \cap DOMAIN h[o].f}

RECURSIVE Reach(_, _)
Reach(h, S) ==
    LET more == S \cup UNION {RefsOf(h, o) : o \in S}
    IN  IF more = S THEN S ELSE Reach(h, more)

\* the relationships declared with cascade="all, delete-orphan" point here
OrphanDeleted == {"RelationModel1", "RelationModel2"}

\* child column <- parent column, for the relationship r of class m
ForeignKey(m, r) ==
    CASE m = "TModel1" /\ r = "relation_models" ->
            <<<<"test_model1_id", "id">>, <<"test_model1_serial", "serial">>>>
      [] m = "TModel2" /\ r = "relation_model" -> <<<<"test_model2_id", "id">>>>
      [] m = "RelationModel1" /\ r = "rel_rel1" -> <<<<"relation_model1_id", "id">>>>
      [] OTHER -> <<>>

\* a single integer primary key is generated by the store when left None
Autoincrement(m) == Len(PrimaryKey(m)) = 1

Max(S) == CHOOSE x \in S : \A y \in S : y <= x

RECURSIVE AssignKeys(_, _, _)
\* the inserts, in the order the instances were made
AssignKeys(h, stored, pending) ==
    IF pending = <<>> THEN h
    ELSE LET o == Head(pending)
             m == h[o].cls
             used == {h[x].f.id.i : x \in {y \in stored : h[y].cls = m /\ h[y].f.id.k = "int"}}
             h1 == IF Autoincrement(m) /\ h[o].f.id.k = "none"
                   THEN SetAttr(h, o, "id", PyInt(Max(used \cup {0}) + 1))
                   ELSE h
         IN  AssignKeys(h1, stored \cup {o}, Tail(pending))

\* the parents among S that hold o in a relationship with a foreign key
ParentsOf(h, S, o) ==
    {pr \in S \X {"relation_models", "relation_model", "rel_rel1"} :
        /\ pr[2] \in RelNames(h[pr[1]].cls) \cap DOMAIN h[pr[1]].f
        /\ ForeignKey(h[pr[1]].cls, pr[2]) # <<>>
        /\ LET v == h[pr[1]].f[pr[2]]
           IN  \/ v.k = "obj" /\ v.i = o
               \/ v.k = "list" /\ \E n \in 1..Len(v.s) : v.s[n] = PyObj(o)}

SyncForeignKeys(h, S) ==
    [o \in 1..Len(h) |->
        IF o \in S /\ ParentsOf(h, S, o) # {}
        THEN LET pr == CHOOSE x \in ParentsOf(h, S, o) :
                           \A y \in ParentsOf(h, S, o) : x[1] <= y[1]
                 fk == ForeignKey(h[pr[1]].cls, pr[2])
             IN  [h[o] EXCEPT !.f = [name \in DOMAIN h[o].f |->
                     IF \E n \in 1..Len(fk) : fk[n][1] = name
                     THEN h[pr[1]].f[fk[CHOOSE n \in 1..Len(fk) : fk[n][1] = name][2]]
                     ELSE h[o].f[name]]]
        ELSE h[o]]

\* every column is NOT NULL, primary keys are unique, TModel1.serial is unique
Storable(h, S) ==
    /\ \A o \in S : \A col \in Columns(h[o].cls) : h[o].f[col].k = "int"
    /\ \A o1, o2 \in S :
          (o1 # o2 /\ h[o1].cls = h[o2].cls)
          => /\ \E col \in Range(PrimaryKey(h[o1].cls)) : h[o1].f[col] # h[o2].f[col]
             /\ h[o1].cls = "TModel1" => h[o1].f.serial # h[o2].f.serial

\* a flush that writes nothing: the pending instances stay pending
FlushKeepsPending(h, tbl, added) == [outcome |-> "ok", heap |-> h, table |-> tbl]

\* session.flush() after session.add of the instances in added
Flush(h, tbl, added) ==
    Bind(Reach(h, tbl \cup added), LAMBDA live :
      LET orphans == {o \in tbl : /\ h[o].cls \in OrphanDeleted
                                  /\ \A p \in live : o \notin RefsOf(h, p)}
      IN  Bind(live \ orphans, LAMBDA S :
            Bind(AssignKeys(h, tbl \ orphans, SortedSeq(S \ tbl)), LAMBDA h1 :
              Bind(SyncForeignKeys(h1, S), LAMBDA h2 :
                IF Storable(h2, S)
                THEN [outcome |-> "ok", heap |-> h2, table |-> S]
                ELSE [outcome |-> "IntegrityError", heap |-> h, table |-> tbl]))))

\* what a call of _get asks of the session: one execute once the pk condition
\* is resolved
GetSteps(g) == IF g.executed THEN <<"execute">> ELSE <<>>

\* a create that catches the error of the flush and raises ORMException
CreateWrapsStorageError(h, tbl, model) ==
    Bind(Flush(h, tbl, {model.i}), LAMBDA fl :
        [outcome |-> IF fl.outcome = "ok" THEN "ok" ELSE "ORMException",
         heap |-> fl.heap, table |-> fl.table,
         value |-> IF fl.outcome = "ok" THEN model ELSE PyNone,
         steps |-> <<"add", "flush">>])

\* DatabaseRepository.create
RepoCreate(h, tbl, model) ==
    Bind(Flush(h, tbl, {model.i}), LAMBDA fl :
        [outcome |-> fl.outcome, heap |-> fl.heap, table |-> fl.table,
         value |-> IF fl.outcome = "ok" THEN model ELSE PyNone,
         steps |-> <<"add", "flush">>])

\* DatabaseRepository.update
RepoUpdate(h, tbl, cfg, rp, pk, data, load, join_filters) ==
    Bind(Get(h, tbl, cfg, rp, GetOneArgs(pk, load, join_filters)), LAMBDA g :
        IF g.outcome # "ok"
        THEN [outcome |-> g.outcome, heap |-> h, table |-> tbl, value |-> PyNone,
              found |-> PyNone, steps |-> GetSteps(g)]
        ELSE Bind(Apply(h, g.value.i, data), LAMBDA h2 :
               Bind(Flush(h2, tbl, {}), LAMBDA fl :
                 [outcome |-> fl.outcome, heap |-> fl.heap, table |-> fl.table,
                  value |-> IF fl.outcome = "ok" THEN g.value ELSE PyNone,
                  found |-> g.value,
                  steps |-> GetSteps(g) \o <<"NestedUpdater.update", "flush">>])))

\* the relationships declared with cascade="all": session.delete of the parent
\* deletes the related rows too
DeleteCascades(m, r) ==
    \/ m = "TModel1" /\ r = "relation_models"
    \/ m = "TModel2" /\ r = "relation_model"

\* the instances session.delete(o) marks: o and, along cascade="all", the
\* instances its relationships hold
RECURSIVE Deleted(_, _)
Deleted(h, S) ==
    LET next == S \cup UNION {UNION {LET v == h[o].f[r]
                                      IN  IF v.k = "list"
                                          THEN {v.s[n].i : n \in 1..Len(v.s)}
                                          ELSE IF v.k = "obj" THEN {v.i} ELSE {}
                                      : r \in {x \in RelNames(h[o].cls) \cap DOMAIN h[o].f :
                                                  DeleteCascades(h[o].cls, x)}}
                               : o \in S}
    IN  IF next = S THEN S ELSE Deleted(h, next)

\* a deleted row whose relationship has no delete cascade leaves a related
\* row behind: its foreign key is set to NULL, which the column refuses
LeavesRelatedRow(h, tbl, gone) ==
    \E o \in gone : \E r \in RelNames(h[o].cls) \cap DOMAIN h[o].f :
        /\ ~DeleteCascades(h[o].cls, r)
        /\ h[o].f[r].k = "obj"
        /\ h[o].f[r].i \in tbl \ gone

\* session.delete(model) followed by session.flush()
FlushDelete(h, tbl, o) ==
    Bind(Deleted(h, {o}), LAMBDA gone :
        IF LeavesRelatedRow(h, tbl, gone)
        THEN [outcome |-> "IntegrityError", heap |-> h, table |-> tbl]
        ELSE [outcome |-> "ok", heap |-> h, table |-> tbl \ gone])

\* a delete that flushes the session before it marks the instance
DeleteFlushesFirst(h, tbl, cfg, rp, pk, join_filters) ==
    Bind(Get(h, tbl, cfg, rp, GetOneArgs(pk, PyNone, join_filters)), LAMBDA g :
        IF g.outcome # "ok"
        THEN [outcome |-> g.outcome, heap |-> h, table |-> tbl, value |-> PyNone,
              steps |-> GetSteps(g)]
        ELSE Bind(FlushDelete(h, tbl, g.value.i), LAMBDA fl :
               [outcome |-> fl.outcome, heap |-> fl.heap, table |-> fl.table,
                value |-> IF fl.outcome = "ok" THEN g.value ELSE PyNone,
                steps |-> GetSteps(g) \o <<"flush", "delete">>]))

\* DatabaseRepository.delete
RepoDelete(h, tbl, cfg, rp, pk, join_filters) ==
    Bind(Get(h, tbl, cfg, rp, GetOneArgs(pk, PyNone, join_filters)), LAMBDA g :
        IF g.outcome # "ok"
        THEN [outcome |-> g.outcome, heap |-> h, table |-> tbl, value |-> PyNone,
              steps |-> GetSteps(g)]
        ELSE Bind(FlushDelete(h, tbl, g.value.i), LAMBDA fl :
               [outcome |-> fl.outcome, heap |-> fl.heap, table |-> fl.table,
                value |-> IF fl.outcome = "ok" THEN g.value ELSE PyNone,
                steps |-> GetSteps(g) \o <<"delete", "flush">>]))

(***************************************************************************)
(* DTORepository: rp is the wrapped repository with the response schema.   *)
(***************************************************************************)
\* if refresh: await self.repo.session.refresh(model)
RefreshSteps(refresh) == IF refresh THEN <<"refresh">> ELSE <<>>

\* DTORepository._model_validate(model, refresh, schema): schema or
\* self._schema; refresh re-reads the flushed row, which the instance equals
DtoModelValidate(h, rp, model, refresh, schema) ==
    ModelValidate(h, model.i, IF schema # "" THEN schema ELSE rp.schema)

\* DTORepository.create: the schema argument is handed to _model_validate in
\* the place of refresh
DtoCreateResult(h, tbl, rp, data, schema) ==
    Bind(Convert(h, data, rp.model), LAMBDA b :
        IF b.outcome # "ok"
        THEN [outcome |-> b.outcome, heap |-> b.heap, table |-> tbl, value |-> PyNone,
              model |-> PyNone, steps |-> <<>>]
        ELSE Bind(RepoCreate(b.heap, tbl, b.value), LAMBDA c :
               IF c.outcome # "ok"
               THEN [outcome |-> c.outcome, heap |-> c.heap, table |-> tbl,
                     value |-> PyNone, model |-> b.value, steps |-> c.steps]
               ELSE Bind(DtoModelValidate(c.heap, rp, c.value, schema # "", ""), LAMBDA v :
                      [outcome |-> v.outcome, heap |-> c.heap, table |-> c.table,
                       value |-> v.value, model |-> b.value,
                       steps |-> c.steps \o RefreshSteps(schema # "")])))

\* DTORepository.update
DtoUpdateResult(h, tbl, cfg, rp, pk, data, load, refresh, schema, join_filters) ==
    Bind(ModelDumpExcludeUnset(data), LAMBDA passed :
      Bind(RepoUpdate(h, tbl, cfg, rp, pk, passed, load, join_filters), LAMBDA u :
        IF u.outcome # "ok"
        THEN [outcome |-> u.outcome, heap |-> u.heap, table |-> u.table, value |-> PyNone,
              model |-> u.found, passed |-> passed, steps |-> u.steps]
        ELSE Bind(DtoModelValidate(u.heap, rp, u.value, refresh, schema), LAMBDA v :
               [outcome |-> v.outcome, heap |-> u.heap, table |-> u.table,
                value |-> v.value, model |-> u.found, passed |-> passed,
                steps |-> u.steps \o RefreshSteps(refresh)])))

\* _model_validate of the list get_many returns: one DTO per entity, in order
RECURSIVE ValidateEach(_, _, _, _)
ValidateEach(h, objects, sc, done) ==
    IF objects = <<>> THEN [outcome |-> "ok", value |-> PyList(done)]
    ELSE Bind(ModelValidate(h, Head(objects).i, sc), LAMBDA v :
           IF v.outcome # "ok" THEN [outcome |-> v.outcome, value |-> PyNone]
           ELSE ValidateEach(h, Tail(objects), sc, Append(done, v.value)))

\* a _model_validate that always converts to self._schema
ValidatesToDefault(h, rp, models, schema) ==
    ValidateEach(h, models.s, rp.schema, <<>>)

\* DTORepository._model_validate(models, schema=schema) for an Iterable
DtoModelValidateMany(h, rp, models, schema) ==
    ValidateEach(h, models.s, IF schema # "" THEN schema ELSE rp.schema, <<>>)

\* DTORepository.get_one
DtoGetOneResult(h, tbl, cfg, rp, pk, load, schema, join_filters) ==
    Bind(Get(h, tbl, cfg, rp, GetOneArgs(pk, load, join_filters)), LAMBDA g :
        IF g.outcome # "ok"
        THEN [outcome |-> g.outcome, value |-> PyNone, models |-> PyNone,
              stmt |-> g.stmt, steps |-> GetSteps(g)]
        ELSE Bind(DtoModelValidate(h, rp, g.value, FALSE, schema), LAMBDA v :
               [outcome |-> v.outcome, value |-> v.value, models |-> g.value,
                stmt |-> g.stmt, steps |-> GetSteps(g)]))

\* DTORepository.get_many
DtoGetManyResult(h, tbl, cfg, rp, filters, load, schema, join_filters, offset, limit) ==
    Bind(Get(h, tbl, cfg, rp, GetManyArgs(filters, load, join_filters, offset, limit)),
         LAMBDA g :
        IF g.outcome # "ok"
        THEN [outcome |-> g.outcome, value |-> PyNone, models |-> PyNone,
              stmt |-> g.stmt, steps |-> GetSteps(g)]
        ELSE Bind(DtoModelValidateMany(h, rp, g.value, schema), LAMBDA v :
               [outcome |-> v.outcome, value |-> v.value, models |-> g.value,
                stmt |-> g.stmt, steps |-> GetSteps(g)]))

\* DTORepository.delete
DtoDeleteResult(h, tbl, cfg, rp, pk, join_filters) ==
    Bind(RepoDelete(h, tbl, cfg, rp, pk, join_filters), LAMBDA d :
        IF d.outcome # "ok"
        THEN [outcome |-> d.outcome, heap |-> d.heap, table |-> d.table, value |-> PyNone,
              model |-> PyNone, steps |-> d.steps]
        ELSE Bind(DtoModelValidate(d.heap, rp, d.value, FALSE, ""), LAMBDA v :
               [outcome |-> v.outcome, heap |-> d.heap, table |-> d.table,
                value |-> v.value, model |-> d.value, steps |-> d.steps]))

(***************************************************************************)
(* The DTO repository over a store that holds rows, and the round trip of  *)
(* src/tests/manual/t_t2.py.  One call is followed to its return.          *)
(***************************************************************************)
\* how the scalar fields of a DTO are given: none of them, all of them, the
\* first only, all of them as None
Patterns(sc) ==
    {"unset", "set", "first"}
    \cup (IF \A n \in 1..Len(SchemaFields(sc)) :
                 SchemaFields(sc)[n].kind = "scalar" => SchemaFields(sc)[n].nullable
          THEN {"none"} ELSE {})

\* the nested DTOs leave their fields to the store or give them all
ItemPatterns(sc) == IF sc = "RelRelSchema" THEN {"first"} ELSE {"unset", "set"}

\* the value given to the n-th field: a value no stored row has, one per field
FreshVal(n) == PyInt(MaxRows + n - 1)

ScalarByPattern(fld, n, pattern) ==
    CASE pattern = "set" -> Given(fld.name, FreshVal(n))
      [] pattern = "first" -> IF n = 1 THEN Given(fld.name, FreshVal(n)) ELSE Default(fld.name)
      [] pattern = "none" -> Given(fld.name, PyNone)
      [] OTHER -> Default(fld.name)

RECURSIVE MakeDtos(_, _)
RECURSIVE RelFieldChoices(_)

\* a relationship field: left out, None where the schema takes it, a nested
\* DTO, a list of nested DTOs
RelFieldChoices(fld) ==
    {Default(fld.name)}
    \cup (IF fld.nullable THEN {Given(fld.name, PyNone)} ELSE {})
    \cup (IF fld.kind = "one"
          THEN {Given(fld.name, d) : d \in MakeDtos(fld.of, ItemPatterns(fld.of))}
          ELSE {Given(fld.name, PyList(q)) :
                   q \in SeqsUpTo(MakeDtos(fld.of, ItemPatterns(fld.of)), MaxItems)})

MakeDtos(sc, patterns) ==
    LET fs == SchemaFields(sc)
        relIdx == {n \in 1..Len(fs) : fs[n].kind # "scalar"}
        choices == UNION {RelFieldChoices(fs[n]) : n \in relIdx}
        relAssign == {fn \in [relIdx -> choices] :
                         \A n \in relIdx : fn[n] \in RelFieldChoices(fs[n])}
    IN  {Dto(sc, [n \in 1..Len(fs) |->
                     IF n \in relIdx THEN rel[n]
                     ELSE ScalarByPattern(fs[n], n, pattern)]) :
            pattern \in patterns, rel \in relAssign}

DtosFor(m) == UNION {MakeDtos(sc, Patterns(sc)) : sc \in SchemasOf(m)}

\* DTORepository(DatabaseRepository(m, session), sc)
DtoRepo(m, sc) ==
    [model |-> m, local_filters |-> PyNone, use_local_filters |-> TRUE,
     use_global_filters |-> TRUE, schema |-> sc]

\* the keys update is called with: a row with related rows, a row without
UpdatePks(m) ==
    IF m = "TModel1"
    THEN {PyTuple(<<PyInt(0), PyInt(0)>>), PyTuple(<<PyInt(1), PyInt(1)>>)}
    ELSE {PyDict(<<<<"id", PyInt(0)>>>>), PyInt(1)}

\* the keys get_one and delete are called with: those of update, a key no
\* row has, a key of the wrong shape
ReadPks(m) ==
    UpdatePks(m) \cup {PyInt(MaxRows), PyTuple(<<PyInt(MaxRows), PyInt(0)>>)}

\* the schema argument of a call: not given, or the plain schema of the model
SchemaArgs(m) == {"", IF m = "TModel1" THEN "TModel1Schema" ELSE "TModel2Schema"}

\* schema.model_validate(builder.convert(dto, Model), from_attributes=True)
RoundTrip(d) ==
    /\ last = NoCall
    /\ \E b \in {Convert(heap, d, repo.model)} :
           /\ heap' = b.heap
           /\ last' = [op |-> "round_trip", data |-> d, model |-> b.value,
                       res |-> IF b.outcome = "ok"
                               THEN ModelValidate(b.heap, b.value.i, d.c)
                               ELSE [outcome |-> b.outcome, value |-> PyNone]]
    /\ UNCHANGED <<table, config, repo>>

\* DTORepository.create
DtoCreate(d, schema) ==
    /\ last = NoCall
    /\ \E r \in {DtoCreateResult(heap, table, repo, d, schema)} :
           /\ heap' = r.heap
           /\ table' = r.table
           /\ last' = [op |-> "dto_create", data |-> d, schema |-> schema,
                       model |-> r.model, steps |-> r.steps,
                       res |-> [outcome |-> r.outcome, value |-> r.value]]
    /\ UNCHANGED <<config, repo>>

\* DTORepository.update
DtoUpdate(pk, d, refresh, schema) ==
    /\ last = NoCall
    /\ \E r \in {DtoUpdateResult(heap, table, config, repo, pk, d, PyNone, refresh,
                                   schema, PyNone)} :
           /\ heap' = r.heap
           /\ table' = r.table
           /\ last' = [op |-> "dto_update", pk |-> pk, data |-> d, schema |-> schema,
                       refresh |-> refresh,
                       pre |-> heap, passed |-> r.passed, model |-> r.model,
                       steps |-> r.steps,
                       res |-> [outcome |-> r.outcome, value |-> r.value]]
    /\ UNCHANGED <<config, repo>>

\* DTORepository.get_one
DtoGetOne(pk, schema, join_filters) ==
    /\ last = NoCall
    /\ \E r \in {DtoGetOneResult(heap, table, config, repo, pk, PyNone, schema,
                                   join_filters)} :
           last' = [op |-> "dto_get_one", pk |-> pk, schema |-> schema,
                    join_filters |-> join_filters, models |-> r.models, stmt |-> r.stmt,
                    steps |-> r.steps,
                    res |-> [outcome |-> r.outcome, value |-> r.value]]
    /\ UNCHANGED <<heap, table, config, repo>>

\* DTORepository.get_many
DtoGetMany(filters, schema, join_filters, offset, limit) ==
    /\ last = NoCall
    /\ \E r \in {DtoGetManyResult(heap, table, config, repo, filters, PyNone, schema,
                                    join_filters, offset, limit)} :
           last' = [op |-> "dto_get_many", filters |-> filters, schema |-> schema,
                    join_filters |-> join_filters, offset |-> offset, limit |-> limit,
                    models |-> r.models, stmt |-> r.stmt, steps |-> r.steps,
                    res |-> [outcome |-> r.outcome, value |-> r.value]]
    /\ UNCHANGED <<heap, table, config, repo>>

\* DTORepository.delete
DtoDelete(pk, join_filters) ==
    /\ last = NoCall
    /\ \E r \in {DtoDeleteResult(heap, table, config, repo, pk, join_filters)} :
           /\ heap' = r.heap
           /\ table' = r.table
           /\ last' = [op |-> "dto_delete", pk |-> pk, join_filters |-> join_filters,
                       pre |-> heap, model |-> r.model, steps |-> r.steps,
                       res |-> [outcome |-> r.outcome, value |-> r.value]]
    /\ UNCHANGED <<config, repo>>

InitDTO ==
    /\ heap = StoreOf(MaxRows)
    /\ table = 1..Len(StoreOf(MaxRows))
    /\ config = InitConfig
    /\ \E m \in PkModels : \E sc \in SchemasOf(m) : repo = DtoRepo(m, sc)
    /\ last = NoCall

NextDTO ==
    \/ /\ last = NoCall
       /\ \E d \in DtosFor(repo.model) : RoundTrip(d)
    \/ /\ last = NoCall
       /\ \E d \in DtosFor(repo.model), schema \in SchemaArgs(repo.model) :
              DtoCreate(d, schema)
    \/ /\ last = NoCall
       /\ \E pk \in UpdatePks(repo.model), d \in DtosFor(repo.model),
             refresh \in BOOLEAN, schema \in SchemaArgs(repo.model) :
              DtoUpdate(pk, d, refresh, schema)
    \/ /\ last = NoCall
       /\ \E pk \in ReadPks(repo.model), schema \in SchemaArgs(repo.model),
             jf \in JoinFilterSets(repo.model) : DtoGetOne(pk, schema, jf)
    \/ /\ last = NoCall
       /\ \E fs \in AdHocFilters(repo.model), schema \in SchemaArgs(repo.model),
             jf \in JoinFilterSets(repo.model), offset \in OptInts, limit \in OptInts :
              DtoGetMany(fs, schema, jf, offset, limit)
    \/ /\ last = NoCall
       /\ \E pk \in ReadPks(repo.model), jf \in JoinFilterSets(repo.model) :
              DtoDelete(pk, jf)

SpecDTO == InitDTO /\ [][NextDTO]_vars

(***************************************************************************)
(* Properties of the DTO repository and of the round trip                  *)
(***************************************************************************)
RECURSIVE Agrees(_, _, _)

\* the value w a conversion gave back for the value v of field fld; with
\* emptied, a to-many field given as None is expected back as an empty list
SameValue(v, w, fld, emptied) ==
    IF v.k = "dto" THEN Agrees(v, w, emptied)
    ELSE IF v.k = "list"
    THEN /\ w.k = "list"
         /\ Len(w.s) = Len(v.s)
         /\ \A n \in 1..Len(v.s) : Agrees(v.s[n], w.s[n], emptied)
    ELSE IF v.k = "none" /\ fld.kind = "many" /\ emptied THEN w = PyList(<<>>)
    ELSE w = v

\* e equals d on every field explicitly set on d, nested DTOs likewise
Agrees(d, e, emptied) ==
    /\ e.k = "dto"
    /\ e.c = d.c
    /\ \A n \in 1..Len(d.s) :
          d.s[n][3] => SameValue(d.s[n][2], e.s[n][2], SchemaFields(d.c)[n], emptied)

IsRoundTrip == last.op = "round_trip"

\* create returned, in the type of its input
IsCreated ==
    /\ last.op = "dto_create"
    /\ last.res.outcome = "ok"
    /\ last.data.c = repo.schema

RECURSIVE AgreesStored(_, _, _)

\* the fields flush writes: the foreign key of a nested item, a generated key
StoreWritten(m, name, v, nested) ==
    \/ nested /\ name \in {"test_model1_id", "test_model1_serial", "test_model2_id",
                          "relation_model1_id"}
    \/ Autoincrement(m) /\ name = "id" /\ v.k = "none"

\* e equals d on every explicitly set field that flush does not write
AgreesStored(d, e, nested) ==
    /\ e.k = "dto"
    /\ \A n \in 1..Len(d.s) :
          LET fld == SchemaFields(d.c)[n]
              v == d.s[n][2]
              w == DtoField(e, fld.name)[2]
              m == CHOOSE x \in Models : d.c \in SchemasOf(x)
          IN  (d.s[n][3] /\ ~StoreWritten(m, fld.name, v, nested)) =>
                 IF v.k = "dto" THEN AgreesStored(v, w, TRUE)
                 ELSE IF v.k = "list"
                 THEN /\ w.k = "list"
                      /\ Len(w.s) = Len(v.s)
                      /\ \A j \in 1..Len(v.s) : AgreesStored(v.s[j], w.s[j], TRUE)
                 ELSE IF v.k = "none" /\ fld.kind = "many" THEN w = PyList(<<>>)
                 ELSE w = v

IsUpdated ==
    /\ last.op = "dto_update"
    /\ last.model # PyNone

\* C10: DTORepository.update passes exactly the fields explicitly set on the
\* DTO: a field never set leaves the entity's field as it was, a field set is
\* written even when its value is None, and a to-many field set to None
\* empties the collection.
C10_UpdateWritesSetFieldsOnly ==
    IsUpdated =>
        LET d == last.data
            o == last.model.i
            fs == SchemaFields(d.c)
        IN  /\ DictKeys(last.passed) = {d.s[n][1] : n \in {q \in 1..Len(d.s) : d.s[q][3]}}
            /\ \A n \in 1..Len(fs) :
                  IF ~d.s[n][3] THEN heap[o].f[fs[n].name] = last.pre[o].f[fs[n].name]
                  ELSE IF fs[n].kind = "scalar" THEN heap[o].f[fs[n].name] = d.s[n][2]
                  ELSE IF d.s[n][2].k = "none"
                  THEN heap[o].f[fs[n].name] =
                           IF fs[n].kind = "many" THEN PyList(<<>>) ELSE PyNone
                  ELSE IF fs[n].kind = "many"
                  THEN /\ heap[o].f[fs[n].name].k = "list"
                       /\ Len(heap[o].f[fs[n].name].s) = Len(d.s[n][2].s)
                  ELSE heap[o].f[fs[n].name].k = "obj"

\* a DTO with only its to-many field set, to None, emptied a collection that
\* held rows, and left the name as it was
C10_Witness ==
    /\ IsUpdated
    /\ last.res.outcome = "ok"
    /\ DictKeys(last.passed) = {"relation_models"}
    /\ DtoField(last.data, "relation_models") = Given("relation_models", PyNone)
    /\ Len(last.pre[last.model.i].f.relation_models.s) > 0
    /\ heap[last.model.i].f.relation_models = PyList(<<>>)
    /\ heap[last.model.i].f.name = last.pre[last.model.i].f.name
    /\ \A n \in 1..Len(last.pre[last.model.i].f.relation_models.s) :
           last.pre[last.model.i].f.relation_models.s[n].i \notin table

(***************************************************************************)
(* config_orm: the setters of ConfigORM and configure.  Each operator      *)
(* returns [outcome, config]: the configuration the call leaves.           *)
(***************************************************************************)
\* a dict key that is a Python int is written as its numeral; every other
\* key is a str
NumeralKeys == {"0", "1"}

\* isinstance(k, str)
IsStrKey(key) == key \notin NumeralKeys

\* ConfigORM.limit (setter)
SetLimitResult(cfg, value) ==
    IF value.k # "int" THEN [outcome |-> "ConfigurateException", config |-> cfg]
    ELSE IF value.i < 0 THEN [outcome |-> "ConfigurateException", config |-> cfg]
    ELSE [outcome |-> "ok", config |-> [cfg EXCEPT !.limit = value.i]]

\* ConfigORM.global_filters (setter)
SetGlobalFiltersResult(cfg, value) ==
    IF value.k # "dict" THEN [outcome |-> "ConfigurateException", config |-> cfg]
    ELSE IF ~(\A n \in 1..Len(value.s) : IsStrKey(value.s[n][1]))
    THEN [outcome |-> "ConfigurateException", config |-> cfg]
    ELSE [outcome |-> "ok", config |-> [cfg EXCEPT !.global_filters = value]]

\* setattr(self, key, value): the two properties have setters, any other name
\* becomes a plain attribute of the object
SetAttrConfig(cfg, key, value) ==
    CASE key = "limit" -> SetLimitResult(cfg, value)
      [] key = "global_filters" -> SetGlobalFiltersResult(cfg, value)
      [] OTHER -> [outcome |-> "ok", config |-> cfg]

\* ConfigORM.configure: the keyword arguments in the order they were written
RECURSIVE ConfigureResult(_, _)
ConfigureResult(cfg, pairs) ==
    IF pairs = <<>> THEN [outcome |-> "ok", config |-> cfg]
    ELSE Bind(SetAttrConfig(cfg, Head(pairs)[1], Head(pairs)[2]), LAMBDA r :
           IF r.outcome # "ok" THEN r ELSE ConfigureResult(r.config, Tail(pairs)))

\* config_orm.limit = value
SetLimit(value) ==
    /\ last = NoCall
    /\ \E r \in {SetLimitResult(config, value)} :
           /\ config' = r.config
           /\ last' = [op |-> "set_limit", value |-> value, pre |-> config,
                       res |-> [outcome |-> r.outcome]]
    /\ UNCHANGED <<heap, table, repo>>

\* config_orm.global_filters = value
SetGlobalFilters(value) ==
    /\ last = NoCall
    /\ \E r \in {SetGlobalFiltersResult(config, value)} :
           /\ config' = r.config
           /\ last' = [op |-> "set_global_filters", value |-> value, pre |-> config,
                       res |-> [outcome |-> r.outcome]]
    /\ UNCHANGED <<heap, table, repo>>

\* config_orm.configure(**kwargs), kwargs as a dict
Configure(kwargs) ==
    /\ last = NoCall
    /\ \E r \in {ConfigureResult(config, kwargs.s)} :
           /\ config' = r.config
           /\ last' = [op |-> "configure", value |-> kwargs, pre |-> config,
                       res |-> [outcome |-> r.outcome]]
    /\ UNCHANGED <<heap, table, repo>>

\* the values a caller assigns to limit: negative, zero, positive, not an int
LimitInputs == {PyInt(v) : v \in (0 - 1)..MaxRows} \cup {PyNone, PyList(<<>>)}

\* the values a caller assigns to global_filters: the maps of ConfigMaps
\* (None among them), a list, a dict with an int key
GlobalFilterInputs ==
    ConfigMaps \cup {PyList(<<>>), PyDict(<<<<"1", PyInt(1)>>>>),
                     PyDict(<<<<"name", PyInt(1)>>, <<"0", PyInt(1)>>>>)}

\* keyword arguments of configure: one setting, both in either order, a name
\* that is no setting
ConfigureInputs ==
    LET limits == {<<"limit", PyInt(v)>> : v \in {0 - 1, 1}}
        maps == {<<"global_filters", G>> : G \in {PyNone, PyDict(<<<<"name", PyInt(1)>>>>)}}
    IN  {PyDict(<<x>>) : x \in limits \cup maps \cup {<<"page_size", PyInt(1)>>}}
        \cup {PyDict(<<x, y>>) : x \in limits, y \in maps}
        \cup {PyDict(<<y, x>>) : x \in limits, y \in maps}

\* the limit argument of a read: None, zero, positive, negative
LimitArgs == OptInts \cup {PyInt(0 - 1)}

\* repositories constructed before the configuration changes, over a store
\* with rows
InitCfg ==
    /\ \E n \in 0..MaxRows :
          /\ heap = StoreOf(n)
          /\ table = 1..Len(StoreOf(n))
    /\ config = InitConfig
    /\ \E m \in PkModels : repo \in RepoSettings(m)
    /\ last = NoCall

NextCfg ==
    \/ \E value \in LimitInputs : SetLimit(value)
    \/ \E value \in GlobalFilterInputs : SetGlobalFilters(value)
    \/ \E kwargs \in ConfigureInputs : Configure(kwargs)
    \/ \E limit \in LimitArgs : GetMany(PyNone, PyNone, PyNone, PyNone, limit)
    \/ \E pk \in UpdatePks(repo.model) : GetOne(pk, PyNone, PyNone)
    \/ Done

SpecCfg == InitCfg /\ [][NextCfg]_vars

(***************************************************************************)
(* C11.  get_many uses the effective limit L: its limit argument when that *)
(* is a positive integer, the default page size of config_orm when it is   *)
(* None or not positive; the list it returns never has more than L         *)
(* entities, whatever value config_orm has reached.                        *)
(***************************************************************************)
IsGetMany == last.op = "get_many"

C11_AtMostEffectiveLimit ==
    (IsGetMany /\ last.res.outcome = "ok") =>
        LET limit == last.args.limit
            L == IF limit.k = "int" /\ limit.i > 0 THEN limit.i ELSE config.limit
        IN  /\ last.res.stmt.limit = L
            /\ Len(last.res.value.s) <= L

(***************************************************************************)
(* C12.  Every mutation of config_orm is validated: assigning a limit that *)
(* is not a positive integer, or a global filter map that is not a dict    *)
(* with only string keys, raises ConfigurateException and leaves the       *)
(* stored value unchanged; so the stored limit is always a positive        *)
(* integer and the stored global filter map has only string keys.          *)
(***************************************************************************)
StrKeyDict(v) == v.k = "dict" /\ \A n \in 1..Len(v.s) : IsStrKey(v.s[n][1])

C12_ConfigValidated ==
    /\ config.limit > 0
    /\ config.global_filters.k # "none" => StrKeyDict(config.global_filters)
    /\ (last.op = "set_limit" /\ ~(last.value.k = "int" /\ last.value.i > 0))
           => (last.res.outcome = "ConfigurateException" /\ config = last.pre)
    /\ (last.op = "set_global_filters" /\ ~StrKeyDict(last.value))
           => (last.res.outcome = "ConfigurateException" /\ config = last.pre)

(***************************************************************************)
(* C13.  config_orm is read at call time: after its limit or its global    *)
(* filter map has changed, the next read of a repository constructed       *)
(* before the change (use_global_filters true) uses the new default page   *)
(* size and the new global filter map.                                     *)
(***************************************************************************)
C13_ConfigReadAtCall ==
    (IsRead /\ last.res.executed /\ repo.use_global_filters) =>
        LET limit == last.args.limit
            without == Get(heap, table, config, [repo EXCEPT !.use_global_filters = FALSE],
                           last.args).stmt.wheres
        IN  /\ last.res.stmt.limit
                   = (IF limit.k = "int" /\ limit.i > 0 THEN limit.i ELSE config.limit)
            /\ last.res.stmt.wheres
                   = (IF Truthy(config.global_filters)
                      THEN Append(without, ResolveGlobalFilters(repo.model,
                                                                config.global_filters))
                      ELSE without)

\* a repository built under the defaults reads one page of one row, filtered
\* by the map assigned afterwards
C13_Witness ==
    /\ IsGetMany
    /\ repo.use_global_filters
    /\ config.limit = 1
    /\ config.global_filters = PyDict(<<<<"name", PyInt(1)>>>>)
    /\ last.args.limit = PyNone
    /\ last.res.outcome = "ok"
    /\ last.res.stmt.limit = 1
    /\ Len(last.res.stmt.wheres) > 0
    /\ Len(last.res.value.s) = 1

(***************************************************************************)
(* C14.  No operation calls commit or rollback on the session.  Each       *)
(* successful create, update and delete performs exactly one flush, after  *)
(* its own mutation step (session.add, the nested reconciliation,          *)
(* session.delete); get_one and get_many perform no flush, add or delete.  *)
(***************************************************************************)
IsSessionOp ==
    last.op \in {"dto_create", "dto_update", "dto_delete", "dto_get_one", "dto_get_many"}

Places(q, x) == {n \in 1..Len(q) : q[n] = x}

MutationStep(op) ==
    CASE op = "dto_create" -> "add"
      [] op = "dto_update" -> "NestedUpdater.update"
      [] OTHER -> "delete"

C14_OneFlushAfterMutation ==
    IsSessionOp =>
        /\ Places(last.steps, "commit") = {}
        /\ Places(last.steps, "rollback") = {}
        /\ (last.op \in {"dto_create", "dto_update", "dto_delete"} /\ last.res.outcome = "ok")
               => /\ Cardinality(Places(last.steps, "flush")) = 1
                  /\ Cardinality(Places(last.steps, MutationStep(last.op))) = 1
                  /\ \A m \in Places(last.steps, MutationStep(last.op)) :
                         \A n \in Places(last.steps, "flush") : m < n
        /\ last.op \in {"dto_get_one", "dto_get_many"}
               => \A n \in 1..Len(last.steps) :
                      last.steps[n] \notin {"flush", "add", "delete"}

\* a delete that found its row: execute, delete, flush, and the row is gone
C14_Witness ==
    /\ last.op = "dto_delete"
    /\ last.res.outcome = "ok"
    /\ last.steps = <<"execute", "delete", "flush">>
    /\ last.model.i \notin table

(***************************************************************************)
(* One unit of work on a DatabaseRepository: a caller's calls one after    *)
(* the other on one session, starting from an empty store.  last keeps,    *)
(* next to the call, how many creates and deletes have succeeded so far.   *)
(* A flush that failed leaves the session unusable until the caller rolls  *)
(* back, which the repository never does: the unit of work ends there.     *)
(***************************************************************************)
\* the most instances the caller constructs in one unit of work
MaxCreated == 3

Usable == IF last.op = "none" THEN TRUE ELSE last.res.outcome # "IntegrityError"

Tally(name) == IF name \in DOMAIN last THEN last[name] ELSE 0

\* the instances a caller constructs for one create, the entity first: a
\* TModel1 with its key, a TModel2 without a key, a TModel2 with a key and a
\* related row; n is the place of the entity on the heap
UowEntities(m, n) ==
    IF m = "TModel1"
    THEN {<<Construct(m, PyDict(<<<<"id", PyInt(v)>>, <<"serial", PyInt(0)>>,
                                  <<"name", PyInt(0)>>>>))>> : v \in Vals}
    ELSE {<<Construct(m, PyDict(<<<<"name", PyInt(0)>>>>))>>}
         \cup {<<Construct(m, PyDict(<<<<"id", PyInt(v)>>, <<"name", PyInt(0)>>,
                                       <<"relation_model", PyObj(n + 1)>>>>)),
                 Construct("RelationModel2", PyDict(<<>>))>> : v \in Vals}

\* the keys a caller passes: those of the entities, a falsy scalar
UowPks(m) ==
    IF m = "TModel1"
    THEN {PyTuple(<<PyInt(v), PyInt(0)>>) : v \in Vals} \cup {PyInt(0)}
    ELSE {PyInt(v) : v \in Vals} \cup {PyInt(MaxVal + 1)}

\* join_filters: none, a join with no filter
UowJoins(m) == {PyNone, PyDict(<<<<RelatedModel(m), PyList(<<>>)>>>>)}

\* repo.create(entity)
UowCreate(instances) ==
    /\ Usable
    /\ Len(heap) + Len(instances) <= MaxCreated
    /\ \E r \in {RepoCreate(heap \o instances, table, PyObj(Len(heap) + 1))} :
           /\ heap' = r.heap
           /\ table' = r.table
           /\ last' = [op |-> "create", entity |-> PyObj(Len(heap) + 1),
                       pre |-> [heap |-> heap \o instances, table |-> table],
                       steps |-> r.steps,
                       res |-> [outcome |-> r.outcome, value |-> r.value],
                       created |-> Tally("created") + (IF r.outcome = "ok" THEN 1 ELSE 0),
                       deleted |-> Tally("deleted")]
    /\ UNCHANGED <<config, repo>>

\* repo.delete(pk, join_filters=join_filters)
UowDelete(pk, join_filters) ==
    /\ Usable
    /\ \E r \in {RepoDelete(heap, table, config, repo, pk, join_filters)} :
           /\ heap' = r.heap
           /\ table' = r.table
           /\ last' = [op |-> "delete", pk |-> pk, join_filters |-> join_filters,
                       pre |-> [heap |-> heap, table |-> table],
                       steps |-> r.steps,
                       res |-> [outcome |-> r.outcome, value |-> r.value],
                       created |-> Tally("created"),
                       deleted |-> Tally("deleted") + (IF r.outcome = "ok" THEN 1 ELSE 0)]
    /\ UNCHANGED <<config, repo>>

\* repo.update(pk, {'name': 1})
UowUpdate(pk) ==
    /\ Usable
    /\ \E r \in {RepoUpdate(heap, table, config, repo, pk,
                             PyDict(<<<<"name", PyInt(1)>>>>), PyNone, PyNone)} :
           /\ heap' = r.heap
           /\ table' = r.table
           /\ last' = [op |-> "update", pk |-> pk, join_filters |-> PyNone,
                       pre |-> [heap |-> heap, table |-> table],
                       steps |-> r.steps,
                       res |-> [outcome |-> r.outcome, value |-> r.value],
                       created |-> Tally("created"), deleted |-> Tally("deleted")]
    /\ UNCHANGED <<config, repo>>

\* repo.get_many()
UowGetMany ==
    /\ Usable
    /\ \E r \in {Get(heap, table, config, repo,
                      GetManyArgs(PyNone, PyNone, PyNone, PyInt(0), PyNone))} :
           last' = [op |-> "get_many",
                    args |-> GetManyArgs(PyNone, PyNone, PyNone, PyInt(0), PyNone),
                    steps |-> GetSteps(r), res |-> r,
                    created |-> Tally("created"), deleted |-> Tally("deleted")]
    /\ UNCHANGED <<heap, table, config, repo>>

\* repo.get_one(pk)
UowGetOne(pk) ==
    /\ Usable
    /\ \E r \in {Get(heap, table, config, repo, GetOneArgs(pk, PyNone, PyNone))} :
           last' = [op |-> "get_one", args |-> GetOneArgs(pk, PyNone, PyNone),
                    steps |-> GetSteps(r), res |-> r,
                    created |-> Tally("created"), deleted |-> Tally("deleted")]
    /\ UNCHANGED <<heap, table, config, repo>>

\* an empty store; config_orm with its default page size or a page of one
InitUow ==
    /\ heap = EmptyHeap
    /\ table = {}
    /\ config \in {InitConfig, [InitConfig EXCEPT !.limit = 1]}
    /\ \E m \in PkModels : repo = InitRepo(m)
    /\ last = NoCall

NextUow ==
    \/ \E instances \in UowEntities(repo.model, Len(heap) + 1) : UowCreate(instances)
    \/ \E pk \in UowPks(repo.model), jf \in UowJoins(repo.model) : UowDelete(pk, jf)
    \/ \E pk \in UowPks(repo.model) : UowUpdate(pk)
    \/ UowGetMany
    \/ \E pk \in UowPks(repo.model) : UowGetOne(pk)

SpecUow == InitUow /\ [][NextUow]_vars

(***************************************************************************)
(* C15.  create(entity) returns the very instance it was given, and the    *)
(* entity is visible to later reads of the same unit of work without a     *)
(* commit: from an empty table get_many() raises EntryNotFound, and after  *)
(* k successful creates (k not above the effective limit) get_many()       *)
(* returns exactly k entities.                                             *)
(***************************************************************************)
C15_CreatedIsVisible ==
    /\ (last.op = "create" /\ last.res.outcome = "ok")
           => /\ last.res.value = last.entity
              /\ last.entity.i \in table
    /\ (last.op = "get_many" /\ last.deleted = 0 /\ last.created <= config.limit)
           => IF last.created = 0
              THEN last.res.outcome = "EntryNotFound"
              ELSE /\ last.res.outcome = "ok"
                   /\ Len(last.res.value.s) = last.created

\* two creates have succeeded and get_many() returns two entities
C15_Witness ==
    /\ last.op = "get_many"
    /\ last.created = 2
    /\ last.deleted = 0
    /\ last.res.outcome = "ok"
    /\ Len(last.res.value.s) = 2

(***************************************************************************)
(* C16.  After delete(pk) succeeds, in the same unit of work: get_one(pk)  *)
(* raises EntryNotFound, get_many() returns exactly one entity fewer than  *)
(* before the delete (none at all is EntryNotFound), and delete returned   *)
(* the instance that was removed.                                          *)
(***************************************************************************)
Returned(r) == IF r.outcome = "ok" THEN Len(r.value.s) ELSE 0

C16_DeletedIsGone ==
    (last.op = "delete" /\ last.res.outcome = "ok") =>
        LET all == GetManyArgs(PyNone, PyNone, PyNone, PyInt(0), PyNone)
            before == Get(last.pre.heap, last.pre.table, config, repo, all)
            after == Get(heap, table, config, repo, all)
            again == Get(heap, table, config, repo, GetOneArgs(last.pk, PyNone, PyNone))
        IN  /\ again.outcome = "EntryNotFound"
            /\ after.outcome \in {"ok", "EntryNotFound"}
            /\ Returned(after) = Returned(before) - 1
            /\ last.res.value.i \in last.pre.table \ table

(***************************************************************************)
(* C17.  An error the storage layer raises during execute or flush (the    *)
(* IntegrityError of a create whose primary key already exists, the        *)
(* MultipleResultsFound of a read) reaches the caller unchanged: it is not *)
(* caught, not wrapped in an ORM exception, the storage call is not        *)
(* retried, and nothing is rolled back by the repository.                  *)
(***************************************************************************)
C17_StorageErrorsPropagate ==
    /\ (last.op = "create"
        /\ Flush(last.pre.heap, last.pre.table, {last.entity.i}).outcome = "IntegrityError")
           => /\ last.res.outcome = "IntegrityError"
              /\ last.steps = <<"add", "flush">>
              /\ table = last.pre.table
    /\ (last.op = "get_one" /\ last.res.executed
        /\ Len(Unique(Execute(heap, table, last.res.stmt))) > 1)
           => /\ last.res.outcome = "MultipleResultsFound"
              /\ last.steps = <<"execute">>
    /\ (last.op = "delete"
        /\ Get(last.pre.heap, last.pre.table, config, repo,
               GetOneArgs(last.pk, PyNone, last.join_filters)).outcome
               = "MultipleResultsFound")
           => /\ last.res.outcome = "MultipleResultsFound"
              /\ last.steps = <<"execute">>
              /\ table = last.pre.table

\* a second entity with the key of a stored one: the flush raises
\* IntegrityError and the caller gets it
C17_Witness ==
    /\ last.op = "create"
    /\ last.created = 1
    /\ last.res.outcome = "IntegrityError"
    /\ Cardinality(table) = 1
    /\ Len(heap) = 2


(***************************************************************************)
(* ORMBuilder.convert on sources a caller writes by hand: values that are  *)
(* no source at all, mappings whose relationship field holds a list, a     *)
(* mapping, or a value that is neither, and the DTOs of the model.         *)
(***************************************************************************)
\* the relationship attribute of an entity class with one relationship
RelField(m) == CHOOSE x \in RelNames(m) : TRUE

\* values that are neither a BaseModel nor a dict
OtherValues == {PyInt(v) : v \in Vals}

\* what a caller gives for one related row
RelItems == {PyDict(<<>>)} \cup {PyDict(<<<<"id", PyInt(v)>>>>) : v \in Vals} \cup OtherValues

\* what a caller gives for the relationship field: a list for a collection,
\* one item for a scalar relationship, None
RelValues(m) ==
    (IF Relationships(m)[RelField(m)].uselist
     THEN {PyList(q) : q \in SeqsUpTo(RelItems, MaxItems)} \cup OtherValues
     ELSE RelItems)
    \cup {PyNone}

BuilderSources(m) ==
    OtherValues \cup {PyNone, PyList(<<>>)}
    \cup {PyDict(<<<<"name", PyInt(v)>>>>) : v \in Vals}
    \cup {PyDict(<<<<"name", PyInt(0)>>, <<RelField(m), val>>>>) : val \in RelValues(m)}
    \cup DtosFor(m)

\* ORMBuilder().convert(schema, Model)
BuilderConvert(schema) ==
    /\ last = NoCall
    /\ \E b \in {Convert(heap, schema, repo.model)} :
           /\ heap' = b.heap
           /\ last' = [op |-> "convert", schema |-> schema, model |-> repo.model,
                       res |-> [outcome |-> b.outcome, value |-> b.value]]
    /\ UNCHANGED <<table, config, repo>>

InitBuild ==
    /\ heap = EmptyHeap
    /\ table = {}
    /\ config = InitConfig
    /\ \E m \in PkModels : repo = InitRepo(m)
    /\ last = NoCall

NextBuild == \E schema \in BuilderSources(repo.model) : BuilderConvert(schema)

SpecBuild == InitBuild /\ [][NextBuild]_vars

RECURSIVE UnsupportedSource(_, _)
\* a source that is neither a DTO nor a mapping: the source itself, an
\* element of a list given for a relationship field, or a value other than
\* None given for one that is not a list
UnsupportedSource(source, m) ==
    IF source.k \notin {"dto", "dict"} THEN TRUE
    ELSE LET data == IF source.k = "dto" THEN ModelDump(source) ELSE source
         IN  \E n \in 1..Len(data.s) :
                 LET related == GetRelatedModelClass(m, data.s[n][1])
                     value == data.s[n][2]
                 IN  /\ related # ""
                     /\ IF value.k = "list"
                        THEN \E j \in 1..Len(value.s) : UnsupportedSource(value.s[j], related)
                        ELSE value.k # "none" /\ UnsupportedSource(value, related)

\* C18: convert raises TypeError and returns no entity whenever the source,
\* an element of a list given for a relationship field, or a non-list value
\* given for a relationship field is neither a DTO nor a mapping
C18_UnsupportedSourceRaises ==
    (last.op = "convert" /\ UnsupportedSource(last.schema, last.model)) =>
        (last.res.outcome = "TypeError" /\ last.res.value = PyNone)


\* the rows the statement of the last read selects, before unique()
RawRows == Execute(heap, table, last.res.stmt)

HasRepeat(q) == \E j, n \in 1..Len(q) : j # n /\ q[j] = q[n]

\* C19: the list get_many returns holds each entity at most once, and get_one
\* with a valid pk whose row the joins repeat returns that entity, not
\* MultipleResultsFound
C19_ReadsAreUnique ==
    /\ (last.op = "get_many" /\ last.res.outcome = "ok") =>
           ~HasRepeat(last.res.value.s)
    /\ (/\ last.op = "get_one"
        /\ ResolvePkCondition(repo.model, last.args.pk).outcome = "ok"
        /\ last.res.executed
        /\ HasRepeat(RawRows)) =>
           /\ last.res.outcome = "ok"
           /\ last.res.value.i \in Range(RawRows)

\* get_one by a valid pk found its row twice in the joined result
C19_Witness ==
    /\ last.op = "get_one"
    /\ last.res.outcome = "ok"
    /\ HasRepeat(RawRows)
    /\ Truthy(last.args.join_filters)


IsDtoRead == last.op \in {"dto_get_one", "dto_get_many"}

\* the arguments the wrapped repository's _get receives for the last read
DtoReadArgs ==
    IF last.op = "dto_get_one"
    THEN GetOneArgs(last.pk, PyNone, last.join_filters)
    ELSE GetManyArgs(last.filters, PyNone, last.join_filters, last.offset, last.limit)

\* the DTO type the last call asked for
AskedSchema == IF last.schema # "" THEN last.schema ELSE repo.schema

\* entity and DTO at the same place agree: the DTO is of type sc and is what
\* sc.model_validate makes of the entity
ConvertedTo(entity, dto, sc) ==
    /\ dto.k = "dto"
    /\ dto.c = sc
    /\ ModelValidate(heap, entity.i, sc) = [outcome |-> "ok", value |-> dto]

\* C20: get_one and get_many of DTORepository return the entities of the
\* wrapped repository, as many and in its order, each converted to the schema
\* passed to the call, or to the schema of the constructor when none is
\* passed; the statement is the one of the call without schema, and a call
\* without schema afterwards converts to the schema of the constructor
C20_ReadsConvertToSchema ==
    (IsDtoRead /\ last.res.outcome = "ok") =>
        LET plain == Get(heap, table, config, repo, DtoReadArgs)
            later == IF last.op = "dto_get_one"
                     THEN DtoGetOneResult(heap, table, config, repo, last.pk, PyNone, "",
                                          last.join_filters)
                     ELSE DtoGetManyResult(heap, table, config, repo, last.filters, PyNone,
                                           "", last.join_filters, last.offset, last.limit)
        IN  /\ plain.outcome = "ok"
            /\ last.stmt = plain.stmt
            /\ last.models = plain.value
            /\ later.stmt = last.stmt
            /\ later.models = last.models
            /\ IF last.op = "dto_get_one"
               THEN /\ ConvertedTo(plain.value, last.res.value, AskedSchema)
                    /\ later.outcome = "ok" => later.value.c = repo.schema
               ELSE /\ Len(last.res.value.s) = Len(plain.value.s)
                    /\ \A j \in 1..Len(plain.value.s) :
                           ConvertedTo(plain.value.s[j], last.res.value.s[j], AskedSchema)
                    /\ later.outcome = "ok" =>
                           \A j \in 1..Len(later.value.s) : later.value.s[j].c = repo.schema

\* get_many with a schema other than the repository's returned several DTOs
C20_Witness ==
    /\ last.op = "dto_get_many"
    /\ last.res.outcome = "ok"
    /\ last.schema # ""
    /\ last.schema # repo.schema
    /\ Len(last.res.value.s) > 1


\* C21: create returns the created entity converted to the schema passed to
\* the call, and to the schema of the constructor when none is passed
C21_CreateConvertsToSchema ==
    (last.op = "dto_create" /\ last.res.outcome = "ok") =>
        /\ last.res.value.k = "dto"
        /\ last.res.value.c = AskedSchema
        /\ ModelValidate(heap, last.model.i, AskedSchema).value = last.res.value


\* the caller's ad hoc filters, as the detail shows a filter
CallerFilters(filters) ==
    LET given == OrEmptyList(filters)
    IN  [j \in 1..Len(given.s) |-> ExpandExpression(given.s[j])]

\* C22: the detail of EntryNotFound holds the pk of the call, exactly the
\* caller's ad hoc filters (also with join_filters), the local filters when
\* use_local_filters and else None, the global filters when
\* use_global_filters and else None, the caller's load, and the offset when
\* it is not zero and else None
C22_DetailDescribesQuery ==
    (IsRead /\ last.res.outcome = "EntryNotFound") =>
        /\ last.res.detail.pk = last.args.pk
        /\ last.res.detail.filters = CallerFilters(last.args.filters)
        /\ last.res.detail.local_filters =
               (IF repo.use_local_filters THEN repo.local_filters ELSE PyNone)
        /\ last.res.detail.global_filters =
               (IF repo.use_global_filters THEN config.global_filters ELSE PyNone)
        /\ last.res.detail.load = OrEmptyList(last.args.load)
        /\ last.res.detail.offset =
               (IF last.args.offset.k = "int" /\ last.args.offset.i # 0
                THEN last.args.offset ELSE PyNone)


\* the pk of the last get_one, resolved whatever its truth value
ResolvedPk == ResolvePkCondition(repo.model, last.args.pk)

\* C23: for every pk, falsy ones too, get_one resolves the pk before anything
\* is executed: a pk of the wrong shape raises ORMException and nothing is
\* executed; otherwise the statement holds the primary-key condition and the
\* entity returned has the primary key pk
C23_PkAlwaysResolved ==
    (last.op = "get_one") =>
        IF ResolvedPk.outcome # "ok"
        THEN last.res.outcome = ResolvedPk.outcome /\ ~last.res.executed
        ELSE /\ last.res.executed =>
                    \E j \in 1..Len(last.res.stmt.wheres) :
                        last.res.stmt.wheres[j] = ResolvedPk.value
             /\ last.res.outcome = "ok" =>
                    Holds(heap, [main |-> last.res.value.i, rel |-> <<>>], repo.model,
                          <<>>, ResolvedPk.value)


\* the rows the last update or delete would find with the primary-key
\* condition in its statement, in the store before the call
RowsForPk ==
    LET a == GetOneArgs(last.pk, PyNone, last.join_filters)
        c == ResolvePkCondition(repo.model, last.pk)
        stmt == BuildStmt(config, repo, [a EXCEPT !.pk = PyNone], c.value)
    IN  IF c.outcome # "ok" THEN <<>>
        ELSE Execute(last.pre.heap, last.pre.table,
                     [stmt EXCEPT !.wheres = <<c.value>> \o @])

\* C24: an update or delete that finds no row for pk raises EntryNotFound,
\* and has assigned nothing, deleted nothing and flushed nothing: instances
\* and store are as before the call
C24_NotFoundChangesNothing ==
    (/\ last.op \in {"update", "delete"}
     /\ ResolvePkCondition(repo.model, last.pk).outcome = "ok"
     /\ RowsForPk = <<>>) =>
        /\ last.res.outcome = "EntryNotFound"
        /\ heap = last.pre.heap
        /\ table = last.pre.table
        /\ last.steps = <<"execute">>


\* the mappings of a payload that are meant for an entity of class c: the
\* values and list items of the relationship keys that lead to c
NestedPayloads(data, m, c) ==
    UNION {LET key == data.s[j][1]
               value == data.s[j][2]
           IN  IF key \notin RelNames(m) \/ Relationships(m)[key].target # c THEN {}
               ELSE IF value.k = "dict" THEN {value}
               ELSE IF value.k = "list" THEN {x \in Range(value.s) : x.k = "dict"}
               ELSE {} : j \in 1..Len(data.s)}

\* every scalar key of the mapping is the value of that field of entity o
ScalarsAssigned(o, data) ==
    \A j \in 1..Len(data.s) :
        data.s[j][1] \notin RelNames(heap[o].cls) =>
            /\ data.s[j][1] \in DOMAIN heap[o].f
            /\ heap[o].f[data.s[j][1]] = data.s[j][2]

\* the fields of entity o that the mapping does not name are as before
OthersKept(o, data) ==
    \A name \in DOMAIN last.pre[o].f :
        name \notin DictKeys(data) => heap[o].f[name] = last.pre[o].f[name]

Occurrences(q, x) == Cardinality({j \in 1..Len(q) : q[j] = x})

\* C25: update returns the entity the updater was constructed with, changed
\* in place; at every level a field the payload does not name keeps its
\* value and a scalar key holds its payload value as given
C25_UpdateInPlace ==
    IsUpd =>
        LET pre == last.pre
            m == pre[last.entry].cls
        IN  /\ last.ret = last.entry
            /\ Len(heap) >= Len(pre)
            /\ \A o \in 1..Len(pre) : heap[o].cls = pre[o].cls
            /\ OthersKept(last.entry, last.data)
            /\ ScalarsAssigned(last.entry, last.data)
            /\ \A o \in 1..Len(pre) : \A name \in DOMAIN pre[o].f :
                   (o # last.entry /\ heap[o].f[name] # pre[o].f[name]) =>
                       \E d \in NestedPayloads(last.data, m, pre[o].cls) :
                           name \in DictKeys(d)
            /\ \A j \in 1..Len(last.data.s) :
                   LET key == last.data.s[j][1]
                       value == last.data.s[j][2]
                       current == pre[last.entry].f[key]
                       now == heap[last.entry].f[key]
                   IN  key \in RelNames(m) =>
                         IF value.k = "dict"
                         THEN current.k = "obj" =>
                                  /\ now = current
                                  /\ OthersKept(current.i, value)
                                  /\ ScalarsAssigned(current.i, value)
                         ELSE IF value.k = "list"
                         THEN \A n \in 1..Len(value.s) :
                                  (/\ value.s[n].k = "dict"
                                   /\ n <= Len(now.s)
                                   /\ Occurrences(now.s, now.s[n]) = 1) =>
                                      ScalarsAssigned(now.s[n].i, value.s[n])
                         ELSE TRUE

\* a payload with a scalar key and a mapping item that names one field of an
\* item already in the collection
C25_Witness ==
    /\ IsUpd
    /\ DictHas(last.data, "name")
    /\ DictHas(last.data, "relation_models")
    /\ \E n \in 1..Len(heap[1].f["relation_models"].s) :
           LET e == heap[1].f["relation_models"].s[n]
           IN  /\ e.i <= Len(last.pre)
               /\ last.data.s[2][2].s[n].k = "dict"
               /\ heap[e.i] # last.pre[e.i]


(***************************************************************************)
(* NestedUpdater.update with mappings that hold relationship mappings of   *)
(* their own.                                                              *)
(***************************************************************************)
\* items of a to-many payload: the key, and with it a mapping for rel_rel1
DeepItems ==
    {PyDict(<<<<"id", PyInt(v)>>>>) : v \in 1..(MaxItems + 1)}
    \cup {PyDict(<<<<"id", PyInt(v)>>, <<"rel_rel1", PyDict(<<<<"id", PyInt(w)>>>>)>>>>) :
              v \in 1..(MaxItems + 1), w \in Vals}

DeepPayloads(h) ==
    IF h[1].cls = "TModel1"
    THEN {PyDict(<<<<"relation_models", PyList(items)>>>>) :
             items \in SeqsUpTo(DeepItems, MaxItems)}
    ELSE {PyDict(<<<<"relation_model",
                     PyDict(<<<<"id", PyInt(2)>>,
                              <<"test_model2", PyDict(<<<<"name", PyInt(v)>>>>)>>>>)>>>>) :
             v \in Vals}

NextDeep ==
    /\ last = NoCall
    /\ \E data \in DeepPayloads(heap) : NestedUpdate(data)

SpecDeep == InitUpd /\ [][NextDeep]_vars

\* the value at a relationship position is an entity or nothing for a to-one
\* relationship, a list of entities for a to-many relationship
HoldsEntities(m, name, v) ==
    IF Relationships(m)[name].uselist
    THEN v.k = "list" /\ \A j \in 1..Len(v.s) : v.s[j].k = "obj"
    ELSE v.k \in {"obj", "none"}

\* C26: after update every relationship position of the graph holds
\* entities, at every depth, also inside the related entities that update
\* created from a mapping with nested relationship mappings
C26_GraphHoldsEntities ==
    IsUpd =>
        \A o \in 1..Len(heap) :
            \A name \in RelNames(heap[o].cls) \cap DOMAIN heap[o].f :
                HoldsEntities(heap[o].cls, name, heap[o].f[name])


IsDtoCall ==
    last.op \in {"dto_get_one", "dto_get_many", "dto_create", "dto_update", "dto_delete"}

\* C27: session.refresh is called only by update with refresh=True; get_one,
\* get_many, create and delete never call it, whatever their arguments
C27_RefreshOnlyOnRequest ==
    IsDtoCall =>
        (Places(last.steps, "refresh") # {} =>
             (last.op = "dto_update" /\ last.refresh))


\* C28: a configure that raises ConfigurateException leaves limit and
\* global_filters as they were before the call, in whatever order the keyword
\* arguments were written
C28_ConfigureAllOrNothing ==
    (last.op = "configure" /\ last.res.outcome = "ConfigurateException") =>
        config = last.pre


(***************************************************************************)
(* Two coroutines on one event loop.  The first calls get_one or get_many  *)
(* and is suspended at `await self.session.execute(stmt)`; while it waits  *)
(* the second assigns config_orm.global_filters or repo.local_filters;     *)
(* then the first resumes after the await.  While the first waits, `last`  *)
(* holds its frame: op "await execute", its arguments, and its statement.  *)
(***************************************************************************)
\* DatabaseRepository.local_filters (setter)
SetLocalFiltersResult(rp, value) ==
    IF \E j \in 1..Len(value.s) : "kind" \notin DOMAIN value.s[j]
    THEN [outcome |-> "ORMException", repo |-> rp]
    ELSE [outcome |-> "ok", repo |-> [rp EXCEPT !.local_filters = value]]

\* _get up to the await: the page size, the statement with the filters as
\* they are now
BeginGet(op, a) ==
    /\ last = NoCall
    /\ \E pkRes \in {IF Truthy(a.pk) THEN ResolvePkCondition(repo.model, a.pk)
                     ELSE Return(And(<<>>))} :
          last' = IF pkRes.outcome # "ok"
                  THEN [op |-> op, args |-> a, built |-> [config |-> config, repo |-> repo],
                        res |-> [outcome |-> pkRes.outcome, value |-> PyNone,
                                 stmt |-> NoStmt, executed |-> FALSE, nrows |-> 0,
                                 detail |-> NoDetail]]
                  ELSE [op |-> "await execute", call |-> op, args |-> a,
                        built |-> [config |-> config, repo |-> repo],
                        stmt |-> BuildStmt(config, repo, a, pkRes.value)]
    /\ UNCHANGED <<heap, table, config, repo>>

\* the other coroutine: config_orm.global_filters = value
OtherSetsGlobalFilters(value) ==
    /\ last.op = "await execute"
    /\ config' = SetGlobalFiltersResult(config, value).config
    /\ UNCHANGED <<heap, table, repo, last>>

\* the other coroutine: repo.local_filters = value
OtherSetsLocalFilters(value) ==
    /\ last.op = "await execute"
    /\ repo' = SetLocalFiltersResult(repo, value).repo
    /\ UNCHANGED <<heap, table, config, last>>

\* _get after the await: the result, or EntryNotFound with its detail
ResumeGet ==
    /\ last.op = "await execute"
    /\ \E r \in {Fetch(heap, table, config, repo, last.args, last.stmt)} :
          last' = [op |-> last.call, args |-> last.args, built |-> last.built, res |-> r]
    /\ UNCHANGED <<heap, table, config, repo>>

\* the values the other coroutine assigns
OtherGlobalFilters ==
    {PyDict(<<<<"name", PyInt(0)>>>>), PyDict(<<<<"is_active", PyInt(1)>>>>), PyList(<<>>)}

OtherLocalFilters(m) ==
    {PyList(<<>>), PyList(<<Binary(m, "name", "eq", PyInt(0))>>), PyList(<<PyInt(0)>>)}

InitAsync ==
    /\ \E n \in 0..MaxRows :
          /\ heap = StoreOf(n)
          /\ table = 1..Len(StoreOf(n))
    /\ config \in {[limit |-> DefaultLimit, global_filters |-> G] :
                      G \in {PyNone, PyDict(<<<<"name", PyInt(1)>>>>)}}
    /\ \E m \in PkModels : repo \in RepoSettings(m)
    /\ last = NoCall

NextAsync ==
    \/ \E pk \in ReadPks(repo.model) : BeginGet("get_one", GetOneArgs(pk, PyNone, PyNone))
    \/ \E fs \in AdHocFilters(repo.model) :
          BeginGet("get_many", GetManyArgs(fs, PyNone, PyNone, PyInt(0), PyNone))
    \/ \E value \in OtherGlobalFilters : OtherSetsGlobalFilters(value)
    \/ \E value \in OtherLocalFilters(repo.model) : OtherSetsLocalFilters(value)
    \/ ResumeGet

SpecAsync == InitAsync /\ [][NextAsync]_vars

\* C29: the detail of the EntryNotFound of a read that was suspended in
\* execute shows the global and local filters the read put into its
\* statement, not the values assigned while it waited
C29_DetailShowsAppliedFilters ==
    (IsRead /\ last.res.outcome = "EntryNotFound") =>
        /\ last.res.detail.global_filters =
               (IF last.built.repo.use_global_filters
                THEN last.built.config.global_filters ELSE PyNone)
        /\ last.res.detail.local_filters =
               (IF last.built.repo.use_local_filters
                THEN last.built.repo.local_filters ELSE PyNone)


\* C30: a to-many relationship reconciled from mapping items only holds one
\* element per item, in the order of the items, and no instance twice, also
\* when two items carry the same key or no key
C30_OneElementPerItem ==
    (/\ IsUpd
     /\ last.pre[1].cls = "TModel1"
     /\ DictHas(last.data, "relation_models")
     /\ DictGet(last.data, "relation_models").k = "list"
     /\ \A j \in 1..Len(DictGet(last.data, "relation_models").s) :
            DictGet(last.data, "relation_models").s[j].k = "dict") =>
        LET items == DictGet(last.data, "relation_models").s
            now == heap[1].f.relation_models
        IN  /\ now.k = "list"
            /\ Len(now.s) = Len(items)
            /\ \A j \in 1..Len(now.s) : now.s[j].k = "obj"
            /\ ~HasRepeat(now.s)
            /\ \A j \in 1..Len(items) :
                   LET keyVals == KeyVals("RelationModel1", items[j])
                   IN  \A n \in 1..Len(keyVals) :
                           heap[now.s[j].i].f[keyVals[n][1]] = keyVals[n][2]

====
